---- MODULE Spec2Model ----
(***************************************************************************)
(* Multi-madhab RAG retrieval of al-muwatta-ai:                            *)
(*   src/src/services/fiqh_rag_service.py  (FiqhRAG, fallback vector store *)
(*                                          and fallback embedder)         *)
(*   src/src/services/rag_service.py       (MalikiFiqhRAG, legacy ingest)  *)
(*   src/src/routers/upload_router.py      (upload endpoints)              *)
(*   src/populate_all_madhabs.py           (batch ingestion)               *)
(*                                                                         *)
(* Representation.  A Python str is a sequence of one-character strings;   *)
(* an Arabic letter is written as its Unicode name (MEEM, ALEF, ...).      *)
(* Python's None is the value None below.  A uuid4 string is a natural     *)
(* number: uuid strings have one fixed width and lower-case hex digits, so *)
(* their lexicographic order is the numeric order.  A float score is kept  *)
(* exactly, as the pair (dot, nn) standing for dot / sqrt(nn).             *)
(***************************************************************************)
EXTENDS Naturals, Integers, Sequences, FiniteSets, TLC

VARIABLES store, last, _gemini_service, rag, threads, cache, redis

vars == <<store, last, _gemini_service, rag, threads, cache, redis>>

\* what the calls of the one caller on the constructed engine leave alone:
\* the engine object, the concurrent callers, the cache service and Redis
elsewhere == <<rag, threads, cache, redis>>

None == <<"None">>

(***************************************************************************)
(* Strings                                                                 *)
(***************************************************************************)
UpperLetters ==
  <<"A","B","C","D","E","F","G","H","I","J","K","L","M",
    "N","O","P","Q","R","S","T","U","V","W","X","Y","Z">>

LowerLetters ==
  <<"a","b","c","d","e","f","g","h","i","j","k","l","m",
    "n","o","p","q","r","s","t","u","v","w","x","y","z">>

Whitespace == {" ", "\t", "\n", "\r"}

UpperSet == {UpperLetters[i] : i \in 1..Len(UpperLetters)}
LowerSet == {LowerLetters[i] : i \in 1..Len(LowerLetters)}

\* position in the alphabet
UpperIndex == [c \in UpperSet |-> CHOOSE i \in 1..Len(UpperLetters) : UpperLetters[i] = c]
LowerIndex == [c \in LowerSet |-> CHOOSE i \in 1..Len(LowerLetters) : LowerLetters[i] = c]

\* str.lower(), one character
LowerChar(c) == IF c \in UpperSet THEN LowerLetters[UpperIndex[c]] ELSE c

\* str.lower()
Lower(s) == [i \in 1..Len(s) |-> LowerChar(s[i])]

\* str.strip() left out: the string as it is
Strip_Nothing(s) == s

\* str.strip()
Strip(s) ==
  LET keep == {i \in 1..Len(s) : s[i] \notin Whitespace}
  IN  IF keep = {} THEN <<>>
      ELSE LET lo == CHOOSE i \in keep : \A j \in keep : i <= j
               hi == CHOOSE i \in keep : \A j \in keep : j <= i
           IN  SubSeq(s, lo, hi)

\* ord() of a character; only the order and the distinctness of codes matter
Ord(c) ==
  IF c \in LowerSet THEN 96 + LowerIndex[c]
  ELSE IF c \in UpperSet THEN 64 + UpperIndex[c]
  ELSE IF c = " " THEN 32
  ELSE IF c = "'" THEN 39
  ELSE IF c = "_" THEN 95
  ELSE 1600

\* s < t for Python str (lexicographic by code point)
RECURSIVE StrLess(_, _)
StrLess(s, t) ==
  IF t = <<>> THEN FALSE
  ELSE IF s = <<>> THEN TRUE
  ELSE IF Ord(Head(s)) < Ord(Head(t)) THEN TRUE
  ELSE IF Ord(Head(s)) > Ord(Head(t)) THEN FALSE
  ELSE StrLess(Tail(s), Tail(t))

(***************************************************************************)
(* Madhab names                                                            *)
(***************************************************************************)
maliki  == <<"m","a","l","i","k","i">>
hanafi  == <<"h","a","n","a","f","i">>
shafii  == <<"s","h","a","f","i","i">>
hanbali == <<"h","a","n","b","a","l","i">>

MADHAB_KEYS == <<maliki, hanafi, shafii, hanbali>>

MadhabKeySet == {MADHAB_KEYS[i] : i \in 1..Len(MADHAB_KEYS)}

ArabicAl == <<"ALEF","LAM">>
ArMaliki  == <<"MEEM","ALEF","LAM","KAF","YEH">>
ArHanafi  == <<"HAH","NOON","FEH","YEH">>
ArShafii  == <<"SHEEN","ALEF","FEH","AIN","YEH">>
ArHanbali == <<"HAH","NOON","BEH","LAM","YEH">>

\* normalize_madhab_name without lower()
normalize_madhab_name_CaseSensitive(name) ==
  IF name = None \/ name = <<>> THEN None
  ELSE LET n == Strip(name)
       IN  IF n \in {maliki, <<"m","a","l","i","k","y">>} THEN maliki
           ELSE IF n \in {hanafi, <<"h","a","n","a","f","y">>} THEN hanafi
           ELSE IF n \in {shafii, <<"s","h","a","f","i">>,
                          <<"s","h","a","f","i","'","i">>,
                          <<"s","h","a","f","e","i">>,
                          <<"s","h","a","f","e","'","i">>} THEN shafii
           ELSE IF n \in {hanbali, <<"h","a","n","b","a","l","y">>} THEN hanbali
           ELSE IF n \in {ArMaliki, ArabicAl \o ArMaliki} THEN maliki
           ELSE IF n \in {ArHanafi, ArabicAl \o ArHanafi} THEN hanafi
           ELSE IF n \in {ArShafii, ArabicAl \o ArShafii} THEN shafii
           ELSE IF n \in {ArHanbali, ArabicAl \o ArHanbali} THEN hanbali
           ELSE None

\* normalize_madhab_name: name.strip().lower() looked up in the sets of
\* English and Arabic spellings
normalize_madhab_name(name) ==
  IF name = None \/ name = <<>> THEN None
  ELSE LET n == Lower(Strip(name))
       IN  IF n \in {maliki, <<"m","a","l","i","k","y">>} THEN maliki
           ELSE IF n \in {hanafi, <<"h","a","n","a","f","y">>} THEN hanafi
           ELSE IF n \in {shafii, <<"s","h","a","f","i">>,
                          <<"s","h","a","f","i","'","i">>,
                          <<"s","h","a","f","e","i">>,
                          <<"s","h","a","f","e","'","i">>} THEN shafii
           ELSE IF n \in {hanbali, <<"h","a","n","b","a","l","y">>} THEN hanbali
           ELSE IF n \in {ArMaliki, ArabicAl \o ArMaliki} THEN maliki
           ELSE IF n \in {ArHanafi, ArabicAl \o ArHanafi} THEN hanafi
           ELSE IF n \in {ArShafii, ArabicAl \o ArShafii} THEN shafii
           ELSE IF n \in {ArHanbali, ArabicAl \o ArHanbali} THEN hanbali
           ELSE None

\* f"{madhab_key}_fiqh"; the ValueError branch is the value None
collection_for_madhab(madhab_key) ==
  IF madhab_key \notin MadhabKeySet THEN None
  ELSE madhab_key \o <<"_","f","i","q","h">>

(***************************************************************************)
(* Fallback embedder: character 3-gram hashing                             *)
(***************************************************************************)
embedding_dim == 256

\* hash(tri): a fixed function of the three characters for the lifetime of
\* the process
hash(tri) == (Ord(tri[1]) * 31 + Ord(tri[2])) * 31 + Ord(tri[3])

\* The vector is kept sparse and unnormalised: bucket |-> count for the
\* non-zero buckets.  encode divides every entry by the L2 norm; _cosine
\* divides by the norms again, so the score of the normalised vectors is
\* the score of these counts.
encode(text) ==
  LET t == Lower(IF text = None THEN <<>> ELSE text)
      n == IF Len(t) >= 3 THEN Len(t) - 2 ELSE 0
      h(i) == hash(SubSeq(t, i, i + 2)) % embedding_dim
  IN  [b \in {h(i) : i \in 1..n} |-> Cardinality({i \in 1..n : h(i) = b})]

RECURSIVE SumOver(_, _)
SumOver(f, S) ==
  IF S = {} THEN 0
  ELSE LET x == CHOOSE y \in S : TRUE IN f[x] + SumOver(f, S \ {x})

\* dot / (na * nb), with "or 1.0" for a zero norm
_cosine(a, b) ==
  LET common == DOMAIN a \cap DOMAIN b
      dot == SumOver([i \in common |-> a[i] * b[i]], common)
      na2 == SumOver([i \in DOMAIN a |-> a[i] * a[i]], DOMAIN a)
      nb2 == SumOver([i \in DOMAIN b |-> b[i] * b[i]], DOMAIN b)
  IN  [dot |-> dot,
       nn  |-> (IF na2 = 0 THEN 1 ELSE na2) * (IF nb2 = 0 THEN 1 ELSE nb2)]

\* comparisons of scores dot / sqrt(nn), dot >= 0
ScoreLess(s, t) == s.dot * s.dot * t.nn < t.dot * t.dot * s.nn
ScoreEq(s, t) == s.dot * s.dot * t.nn = t.dot * t.dot * s.nn

\* score >= score_threshold, the threshold being the fraction th.p / th.q
ScoreAtLeast(s, th) == s.dot * s.dot * th.q * th.q >= th.p * th.p * s.nn

(***************************************************************************)
(* Fallback vector store (class QdrantClient of fiqh_rag_service.py).      *)
(* _collections is a function: collection name |-> sequence of points.     *)
(* A point is [id, vector, payload]; a payload is a function from keys.    *)
(***************************************************************************)
Min(a, b) == IF a <= b THEN a ELSE b
Max(a, b) == IF a >= b THEN a ELSE b

\* s[:n]
PySlice(s, n) ==
  IF n >= 0 THEN SubSeq(s, 1, Min(n, Len(s)))
  ELSE SubSeq(s, 1, Max(0, Len(s) + n))

\* self._collections.get(collection_name, [])
CollectionItems(st, collection_name) ==
  IF collection_name \in DOMAIN st THEN st[collection_name] ELSE <<>>

\* dict.get(key), None when the key is absent
PayloadGet(payload, key) ==
  IF key \in DOMAIN payload THEN payload[key] ELSE None

\* dict.get(key, default)
PayloadGetDefault(payload, key, default) ==
  IF key \in DOMAIN payload THEN payload[key] ELSE default

get_collection(st, collection_name) ==
  [points_count |-> Len(CollectionItems(st, collection_name))]

\* create_collection that makes the collection anew
create_collection_Reset(st, collection_name) ==
  [c \in DOMAIN st \cup {collection_name} |->
     IF c \in DOMAIN st /\ c # collection_name THEN st[c] ELSE <<>>]

create_collection(st, collection_name) ==
  IF collection_name \in DOMAIN st THEN st
  ELSE [c \in DOMAIN st \cup {collection_name} |->
          IF c \in DOMAIN st THEN st[c] ELSE <<>>]

\* upsert that replaces the points of the collection
upsert_Overwrite(st, collection_name, points) ==
  [c \in DOMAIN st \cup {collection_name} |->
     IF c = collection_name THEN points ELSE st[c]]

upsert(st, collection_name, points) ==
  [c \in DOMAIN st \cup {collection_name} |->
     CollectionItems(st, c) \o (IF c = collection_name THEN points ELSE <<>>)]

\* the "must" conditions of a query filter against one payload; no filter
\* (Python's None) is the filter with no condition
FilterOk(query_filter, payload) ==
  \A i \in 1..Len(query_filter.must) :
       PayloadGet(payload, query_filter.must[i].key)
         = query_filter.must[i].match.value

\* key of the score alone: points of equal score stay in stored order
StoreKeyLess_ScoreOnly(a, b) == ScoreLess(a.score, b.score)

\* key of the store's sort: (score, str(id))
StoreKeyLess(a, b) ==
  \/ ScoreLess(a.score, b.score)
  \/ ScoreEq(a.score, b.score) /\ a.id < b.id

\* list.sort(key, reverse=True) of the store: descending, stable
RECURSIVE StoreInsertDesc(_, _)
StoreInsertDesc(x, s) ==
  IF s = <<>> THEN <<x>>
  ELSE IF StoreKeyLess(Head(s), x) THEN <<x>> \o s
  ELSE <<Head(s)>> \o StoreInsertDesc(x, Tail(s))

RECURSIVE StoreSortDesc(_)
StoreSortDesc(s) ==
  IF s = <<>> THEN <<>>
  ELSE StoreInsertDesc(s[Len(s)], StoreSortDesc(SubSeq(s, 1, Len(s) - 1)))

\* search of the store without the score threshold
client_search_NoThreshold(st, collection_name, query_vector, limit, query_filter, score_threshold) ==
  LET items == CollectionItems(st, collection_name)
      Hit(p) == FilterOk(query_filter, p.payload)
      hits == SelectSeq(items, Hit)
      results == [i \in 1..Len(hits) |->
                    [id |-> hits[i].id,
                     payload |-> hits[i].payload,
                     score |-> _cosine(query_vector, hits[i].vector)]]
  IN  PySlice(StoreSortDesc(results), limit)

\* QdrantClient.search of the fallback store
client_search(st, collection_name, query_vector, limit, query_filter, score_threshold) ==
  LET items == CollectionItems(st, collection_name)
      Hit(p) == /\ FilterOk(query_filter, p.payload)
                /\ ScoreAtLeast(_cosine(query_vector, p.vector), score_threshold)
      hits == SelectSeq(items, Hit)
      results == [i \in 1..Len(hits) |->
                    [id |-> hits[i].id,
                     payload |-> hits[i].payload,
                     score |-> _cosine(query_vector, hits[i].vector)]]
  IN  PySlice(StoreSortDesc(results), limit)

(***************************************************************************)
(* FiqhRAG                                                                 *)
(***************************************************************************)
\* _ensure_collection: get_collection, and create_collection when it raises.
\* [ok, store]: ok is FALSE when create_collection raised.
_ensure_collection(st, collection_name, lookup_raises, create_raises) ==
  IF ~lookup_raises THEN [ok |-> TRUE, store |-> st]
  ELSE IF create_raises THEN [ok |-> FALSE, store |-> st]
  ELSE [ok |-> TRUE, store |-> create_collection(st, collection_name)]

\* the loop of __init__ over the keys: _ensure_collection for each, stopping
\* at the first one that raises.  lookup_raises and create_raises are the
\* collections whose get_collection and create_collection raise.
RECURSIVE EnsureEach(_, _, _, _)
EnsureEach(st, keys, lookup_raises, create_raises) ==
  IF keys = <<>> THEN [ok |-> TRUE, store |-> st]
  ELSE LET collection_name == collection_for_madhab(Head(keys))
           ensured == _ensure_collection(st, collection_name,
                        collection_name \in lookup_raises,
                        collection_name \in create_raises)
       IN  IF ~ensured.ok THEN ensured
           ELSE EnsureEach(ensured.store, Tail(keys), lookup_raises, create_raises)

\* the engine object a successful construction leaves
FiqhRAGEngine == <<"FiqhRAG">>

\* FiqhRAG.__init__: the client, the embedding model, then the collections;
\* whatever raises inside the try is logged and raised again.
\* [raised, store]
FiqhRAG___init__(st, create_all_collections, client_raises, model_raises, lookup_raises, create_raises) ==
  IF client_raises \/ model_raises THEN [raised |-> TRUE, store |-> st]
  ELSE IF ~create_all_collections THEN [raised |-> FALSE, store |-> st]
  ELSE LET ensured == EnsureEach(st, MADHAB_KEYS, lookup_raises, create_raises)
       IN  [raised |-> ~ensured.ok, store |-> ensured.store]

\* {"text": text, **metadata, "madhab": madhab_key}
CanonicalPayload(text, metadata, madhab_key) ==
  [k \in {"text", "madhab"} \cup DOMAIN metadata |->
     IF k = "madhab" THEN madhab_key
     ELSE IF k \in DOMAIN metadata THEN metadata[k]
     ELSE text]

\* add_document that files a document without a recognised madhab under
\* maliki instead of rejecting it
FiqhRAG_add_document_DefaultMaliki(st, text, metadata, id, fault) ==
  LET madhab_raw == PayloadGet(metadata, "madhab")
      normalized == IF madhab_raw # None /\ madhab_raw # <<>>
                      THEN normalize_madhab_name(madhab_raw) ELSE None
      madhab_key == IF normalized = None THEN maliki ELSE normalized
      collection_name == collection_for_madhab(madhab_key)
      ensured == _ensure_collection(st, collection_name,
                   fault \in {"get_collection", "create_collection"},
                   fault = "create_collection")
      point == [id |-> id,
                vector |-> encode(text),
                payload |-> CanonicalPayload(text, metadata, madhab_key)]
  IN  IF ~ensured.ok \/ fault \in {"encode", "upsert"}
        THEN [ret |-> FALSE, store |-> ensured.store]
      ELSE [ret |-> TRUE,
            store |-> upsert(ensured.store, collection_name, <<point>>)]

\* FiqhRAG.add_document.  metadata is a function from keys; id is the
\* uuid4 drawn; fault names the call that raises, if any.  [ret, store].
FiqhRAG_add_document(st, text, metadata, id, fault) ==
  LET madhab_raw == PayloadGet(metadata, "madhab")
      madhab_key == IF madhab_raw # None /\ madhab_raw # <<>>
                      THEN normalize_madhab_name(madhab_raw) ELSE None
  IN  IF madhab_key = None THEN [ret |-> FALSE, store |-> st]
      ELSE
      LET collection_name == collection_for_madhab(madhab_key)
          ensured == _ensure_collection(st, collection_name,
                       fault \in {"get_collection", "create_collection"},
                       fault = "create_collection")
          point == [id |-> id,
                    vector |-> encode(text),
                    payload |-> CanonicalPayload(text, metadata, madhab_key)]
      IN  IF ~ensured.ok THEN [ret |-> FALSE, store |-> ensured.store]
          ELSE IF fault = "encode" THEN [ret |-> FALSE, store |-> ensured.store]
          ELSE IF fault = "upsert" THEN [ret |-> FALSE, store |-> ensured.store]
          ELSE [ret |-> TRUE,
                store |-> upsert(ensured.store, collection_name, <<point>>)]

\* selection without the fall-back to all four schools
SelectedMadhabs_NoFallback(madhabs) ==
  LET given == IF madhabs.none \/ madhabs.items = <<>>
                 THEN MADHAB_KEYS ELSE madhabs.items
      normalized == [i \in 1..Len(given) |-> normalize_madhab_name(given[i])]
      Recognized(m) == m # None
  IN  SelectSeq(normalized, Recognized)

\* the selected madhabs of search: normalised, unrecognised dropped,
\* all four when nothing is left.  The argument is [none, items]: none is
\* TRUE for madhabs=None, items is the list otherwise.
SelectedMadhabs(madhabs) ==
  LET given == IF madhabs.none \/ madhabs.items = <<>>
                 THEN MADHAB_KEYS ELSE madhabs.items
      normalized == [i \in 1..Len(given) |-> normalize_madhab_name(given[i])]
      Recognized(m) == m # None
      selected == SelectSeq(normalized, Recognized)
  IN  IF selected = <<>> THEN MADHAB_KEYS ELSE selected

\* query_filter of search
CategoryQueryFilter(category_filter) ==
  IF category_filter = None \/ category_filter = <<>> THEN [must |-> <<>>]
  ELSE [must |-> <<[key |-> "category", match |-> [value |-> category_filter]]>>]

\* the loop without the inner try: the first collection whose search raises
\* ends it
RECURSIVE PerCollectionResults_Abort(_, _, _, _, _, _, _)
PerCollectionResults_Abort(st, selected, q_vec, n_results, query_filter, score_threshold, failing) ==
  IF selected = <<>> THEN <<>>
  ELSE IF collection_for_madhab(Head(selected)) \in failing THEN <<>>
  ELSE
  LET results == client_search(st, collection_for_madhab(Head(selected)), q_vec,
                               n_results, query_filter, score_threshold)
  IN  [i \in 1..Len(results) |-> [key |-> Head(selected), r |-> results[i]]]
      \o PerCollectionResults_Abort(st, Tail(selected), q_vec, n_results,
                                    query_filter, score_threshold, failing)

\* the loop over the selected collections: (key, result) pairs in order;
\* a collection whose search raises contributes nothing
RECURSIVE PerCollectionResults(_, _, _, _, _, _, _)
PerCollectionResults(st, selected, q_vec, n_results, query_filter, score_threshold, failing) ==
  IF selected = <<>> THEN <<>>
  ELSE
  LET key == Head(selected)
      cname == collection_for_madhab(key)
      results == IF cname \in failing THEN <<>>
                 ELSE client_search(st, cname, q_vec, n_results, query_filter, score_threshold)
  IN  [i \in 1..Len(results) |-> [key |-> key, r |-> results[i]]]
      \o PerCollectionResults(st, Tail(selected), q_vec, n_results,
                              query_filter, score_threshold, failing)

\* merge key with the madhab first: results grouped by collection
MergeKeyLess_MadhabFirst(a, b) ==
  \/ StrLess(a.key, b.key)
  \/ /\ a.key = b.key
     /\ \/ ScoreLess(a.r.score, b.r.score)
        \/ ScoreEq(a.r.score, b.r.score) /\ a.r.id < b.r.id

\* merge key of the score alone: ties stay in the order they were collected
MergeKeyLess_ScoreOnly(a, b) == ScoreLess(a.r.score, b.r.score)

\* key of the merge: (score, madhab key, str(id))
MergeKeyLess(a, b) ==
  \/ ScoreLess(a.r.score, b.r.score)
  \/ /\ ScoreEq(a.r.score, b.r.score)
     /\ \/ StrLess(a.key, b.key)
        \/ a.key = b.key /\ a.r.id < b.r.id

\* per_collection_results.sort(key, reverse=True): descending, stable
RECURSIVE MergeInsertDesc(_, _)
MergeInsertDesc(x, s) ==
  IF s = <<>> THEN <<x>>
  ELSE IF MergeKeyLess(Head(s), x) THEN <<x>> \o s
  ELSE <<Head(s)>> \o MergeInsertDesc(x, Tail(s))

RECURSIVE MergeSortDesc(_)
MergeSortDesc(s) ==
  IF s = <<>> THEN <<>>
  ELSE MergeInsertDesc(s[Len(s)], MergeSortDesc(SubSeq(s, 1, Len(s) - 1)))

ResultMetaKeys ==
  {"topic", "category", "source", "references", "madhab",
   "book_title", "author", "page", "chunk_index"}

\* merged entry that takes the madhab from the payload
MergedEntry_PayloadMadhab(key, r) ==
  [text |-> PayloadGetDefault(r.payload, "text", <<>>),
   metadata |-> [k \in ResultMetaKeys |->
                   IF k \in {"page", "chunk_index"} THEN PayloadGet(r.payload, k)
                   ELSE PayloadGetDefault(r.payload, k, <<>>)],
   score |-> r.score,
   id |-> r.id]

\* one entry of the merged list
MergedEntry(key, r) ==
  [text |-> PayloadGetDefault(r.payload, "text", <<>>),
   metadata |-> [k \in ResultMetaKeys |->
                   IF k = "madhab" THEN key
                   ELSE IF k \in {"page", "chunk_index"} THEN PayloadGet(r.payload, k)
                   ELSE PayloadGetDefault(r.payload, k, <<>>)],
   score |-> r.score,
   id |-> r.id]

\* the list search keeps: the first n_results of the sorted pairs
MergeTop(pairs, n_results) == PySlice(MergeSortDesc(pairs), n_results)

\* FiqhRAG.search.  faults = [encode: BOOLEAN, search: set of collection
\* names whose client.search raises].
\* [ret, encode_calls, queried]: the list returned, the number of calls of
\* embedding_model.encode, the collections client.search was called on.
FiqhRAG_search(st, query, n_results, madhabs, category_filter, score_threshold, faults) ==
  IF Strip(query) = <<>>
    THEN [ret |-> <<>>, encode_calls |-> 0, queried |-> <<>>]
  ELSE
  LET selected == SelectedMadhabs(madhabs)
  IN  IF faults.encode
        THEN [ret |-> <<>>, encode_calls |-> 1, queried |-> <<>>]
      ELSE
      LET q_vec == encode(query)
          query_filter == CategoryQueryFilter(category_filter)
          pairs == PerCollectionResults(st, selected, q_vec, n_results,
                     query_filter, score_threshold, faults.search)
          top == MergeTop(pairs, n_results)
      IN  [ret |-> [i \in 1..Len(top) |-> MergedEntry(top[i].key, top[i].r)],
           encode_calls |-> 1,
           queried |-> [i \in 1..Len(selected) |-> collection_for_madhab(selected[i])]]

\* score_threshold=0.3 of the orchestrator and of get_relevant_context
ContextThreshold == [p |-> 3, q |-> 10]

\* str(i) of a natural number
Digits == <<"0","1","2","3","4","5","6","7","8","9">>

RECURSIVE Str(_)
Str(n) == IF n < 10 THEN <<Digits[n + 1]>> ELSE Str(n \div 10) \o <<Digits[(n % 10) + 1]>>

\* f"{score:.2f}" of the score dot / sqrt(nn), 0 <= score <= 1: the
\* hundredths k nearest to 100 * score, printed as d.dd
Format2f(score) ==
  LET Reached(c) ==
        c = 0 \/ (2 * c - 1) * (2 * c - 1) * score.nn <= 40000 * score.dot * score.dot
      k == CHOOSE c \in 0..100 : Reached(c) /\ ~Reached(c + 1)
  IN  Str(k \div 100) \o <<".">> \o <<Digits[((k % 100) \div 10) + 1]>>
        \o <<Digits[(k % 10) + 1]>>

\* "\n".join(parts)
RECURSIVE Join(_)
Join(parts) ==
  IF parts = <<>> THEN <<>>
  ELSE IF Len(parts) = 1 THEN parts[1]
  ELSE parts[1] \o <<"\n">> \o Join(Tail(parts))

\* one formatted block of FiqhRAG.get_relevant_context
FormatBlock(i, r) ==
  LET meta == r.metadata
  IN  <<"-","-","-","\n">>
      \o <<"*","*","[","S","o","u","r","c","e"," ">> \o Str(i) \o <<"]","*","*"," ">>
      \o PayloadGetDefault(meta, "topic", <<"U","n","k","n","o","w","n">>) \o <<"\n">>
      \o <<"*","*","M","a","d","h","a","b","*","*",":"," ">> \o PayloadGetDefault(meta, "madhab", <<>>)
      \o <<" ","|"," ","*","*","C","a","t","e","g","o","r","y","*","*",":"," ">>
      \o PayloadGetDefault(meta, "category", <<"G","e","n","e","r","a","l">>)
      \o <<" ","|"," ">>
      \o <<"*","*","R","e","l","e","v","a","n","c","e","*","*",":"," ">> \o Format2f(r.score) \o <<"\n">>
      \o <<"*","*","R","e","f","e","r","e","n","c","e","s","*","*",":"," ">>
      \o PayloadGetDefault(meta, "references", <<>>) \o <<"\n","\n">>
      \o Strip(r.text) \o <<"\n">>
      \o <<"-","-","-","\n">>

\* the loop with continue for break: a block that does not fit is skipped
RECURSIVE ContextParts_Skip(_, _, _, _)
ContextParts_Skip(results, i, total_len, max_context_length) ==
  IF i > Len(results) THEN <<>>
  ELSE
  LET formatted == FormatBlock(i, results[i])
  IN  IF total_len + Len(formatted) > max_context_length
        THEN ContextParts_Skip(results, i + 1, total_len, max_context_length)
      ELSE <<formatted>> \o ContextParts_Skip(results, i + 1,
                                              total_len + Len(formatted),
                                              max_context_length)

\* the loop of get_relevant_context from result i on: the blocks appended
\* until the first one that would take total_len past max_context_length
RECURSIVE ContextParts(_, _, _, _)
ContextParts(results, i, total_len, max_context_length) ==
  IF i > Len(results) THEN <<>>
  ELSE
  LET formatted == FormatBlock(i, results[i])
  IN  IF total_len + Len(formatted) > max_context_length THEN <<>>
      ELSE <<formatted>> \o ContextParts(results, i + 1, total_len + Len(formatted),
                                         max_context_length)

\* n_results=5 of get_relevant_context
ContextResults == 5

\* FiqhRAG.get_relevant_context
FiqhRAG_get_relevant_context(st, query, max_context_length, madhabs, faults) ==
  LET results == FiqhRAG_search(st, query, ContextResults, madhabs, None,
                                ContextThreshold, faults).ret
  IN  IF results = <<>> THEN <<>>
      ELSE Join(ContextParts(results, 1, 0, max_context_length))

\* get_statistics where one failing lookup marks every collection
FiqhRAG_get_statistics_AllUnavailable(st, failing) ==
  [embedding_dimension |-> embedding_dim,
   collections |->
     [key \in MadhabKeySet |->
        LET cname == collection_for_madhab(key)
        IN  IF failing # {}
              THEN [collection_name |-> cname, points |-> 0, status |-> "unavailable"]
            ELSE LET info == get_collection(st, cname)
                 IN  [collection_name |-> cname,
                      points |-> info.points_count,
                      status |-> IF info.points_count > 0 THEN "ready" ELSE "empty"]]]

\* FiqhRAG.get_statistics: failing is the set of collections whose
\* get_collection raises
FiqhRAG_get_statistics(st, failing) ==
  [embedding_dimension |-> embedding_dim,
   collections |->
     [key \in MadhabKeySet |->
        LET cname == collection_for_madhab(key)
        IN  IF cname \in failing
              THEN [collection_name |-> cname, points |-> 0, status |-> "unavailable"]
            ELSE LET info == get_collection(st, cname)
                 IN  [collection_name |-> cname,
                      points |-> info.points_count,
                      status |-> IF info.points_count > 0 THEN "ready" ELSE "empty"]]]

(***************************************************************************)
(* MalikiFiqhRAG (rag_service.py): the legacy single-collection engine,    *)
(* which the upload router still writes through, into "maliki_fiqh" of the *)
(* same persist directory "./qdrant_db".                                   *)
(***************************************************************************)
\* {"text": text, **metadata}
LegacyPayload(text, metadata) ==
  [k \in {"text"} \cup DOMAIN metadata |->
     IF k \in DOMAIN metadata THEN metadata[k] ELSE text]

\* MalikiFiqhRAG.add_document on collection_name.  [ret, store].
MalikiFiqhRAG_add_document(st, collection_name, text, metadata, id, fault) ==
  IF fault \in {"encode", "upsert"} THEN [ret |-> FALSE, store |-> st]
  ELSE [ret |-> TRUE,
        store |-> upsert(st, collection_name,
                    <<[id |-> id, vector |-> encode(text),
                       payload |-> LegacyPayload(text, metadata)]>>)]

\* MalikiFiqhRAG.search on collection_name: the results of the store as
\* {text, metadata, score, id}; [] when the embedder or the store raises
MalikiFiqhRAG_search(st, collection_name, query, n_results, category_filter, score_threshold, faults) ==
  IF faults.encode \/ collection_name \in faults.search THEN <<>>
  ELSE
  LET search_results == client_search(st, collection_name, encode(query), n_results,
                                      CategoryQueryFilter(category_filter),
                                      score_threshold)
  IN  [i \in 1..Len(search_results) |->
         [text |-> PayloadGetDefault(search_results[i].payload, "text", <<>>),
          metadata |-> [k \in {"topic", "category", "source", "references"} |->
                          PayloadGetDefault(search_results[i].payload, k, <<>>)],
          score |-> search_results[i].score,
          id |-> search_results[i].id]]

\* one formatted block of MalikiFiqhRAG.get_relevant_context
LegacyFormatBlock(i, result) ==
  LET metadata == result.metadata
  IN  <<"\n","-","-","-","\n">>
      \o <<"*","*","[","S","o","u","r","c","e"," ">> \o Str(i) \o <<"]","*","*"," ">>
      \o PayloadGetDefault(metadata, "topic", <<"U","n","k","n","o","w","n">>) \o <<"\n">>
      \o <<"*","*","C","a","t","e","g","o","r","y","*","*",":"," ">>
      \o PayloadGetDefault(metadata, "category", <<"G","e","n","e","r","a","l">>)
      \o <<" ","|"," ","*","*","R","e","l","e","v","a","n","c","e","*","*",":"," ">> \o Format2f(result.score) \o <<"\n">>
      \o <<"*","*","R","e","f","e","r","e","n","c","e","s","*","*",":"," ">>
      \o PayloadGetDefault(metadata, "references", <<"M","a","l","i","k","i"," ","F","i","q","h">>)
      \o <<"\n","\n">> \o Strip(result.text) \o <<"\n">>
      \o <<"-","-","-","\n">>

RECURSIVE LegacyContextParts(_, _, _, _)
LegacyContextParts(results, i, current_length, max_context_length) ==
  IF i > Len(results) THEN <<>>
  ELSE
  LET formatted == LegacyFormatBlock(i, results[i])
  IN  IF current_length + Len(formatted) > max_context_length THEN <<>>
      ELSE <<formatted>> \o LegacyContextParts(results, i + 1,
                                               current_length + Len(formatted),
                                               max_context_length)

\* n_results=3 of MalikiFiqhRAG.get_relevant_context
LegacyContextResults == 3

\* MalikiFiqhRAG.get_relevant_context
MalikiFiqhRAG_get_relevant_context(st, collection_name, query, max_context_length, faults) ==
  LET results == MalikiFiqhRAG_search(st, collection_name, query, LegacyContextResults,
                                      None, ContextThreshold, faults)
  IN  IF results = <<>> THEN <<>>
      ELSE Join(LegacyContextParts(results, 1, 0, max_context_length))

(***************************************************************************)
(* OrchestratorService (orchestrator_service.py)                           *)
(***************************************************************************)
\* the normalized list of search_madhabs_separately: madhabs or MADHAB_KEYS,
\* normalised, unrecognised entries dropped, MADHAB_KEYS when nothing is left
NormalizedMadhabs(madhabs) ==
  LET selected_madhabs == IF madhabs.none \/ madhabs.items = <<>>
                            THEN MADHAB_KEYS ELSE madhabs.items
      norm == [i \in 1..Len(selected_madhabs) |->
                 normalize_madhab_name(selected_madhabs[i])]
      Truthy(m) == m # None /\ m # <<>>
      normalized == SelectSeq(norm, Truthy)
  IN  IF normalized = <<>> THEN MADHAB_KEYS ELSE normalized

\* every school answered from one search over all the normalized schools
OrchestratorService_search_madhabs_separately_Merged(st, query, madhabs, n_results_per_madhab, faults) ==
  LET normalized == NormalizedMadhabs(madhabs)
  IN  [madhab \in {normalized[i] : i \in 1..Len(normalized)} |->
         FiqhRAG_search(st, query, n_results_per_madhab,
                        [none |-> FALSE, items |-> normalized],
                        None, ContextThreshold, faults).ret]

\* OrchestratorService.search_madhabs_separately: the dict madhab key |->
\* rag.search(query, n_results_per_madhab, madhabs=[madhab], 0.3).  The
\* except branch is not taken: FiqhRAG.search returns [] where it fails.
OrchestratorService_search_madhabs_separately(st, query, madhabs, n_results_per_madhab, faults) ==
  LET normalized == NormalizedMadhabs(madhabs)
  IN  [madhab \in {normalized[i] : i \in 1..Len(normalized)} |->
         FiqhRAG_search(st, query, n_results_per_madhab,
                        [none |-> FALSE, items |-> <<madhab>>],
                        None, ContextThreshold, faults).ret]

(***************************************************************************)
(* Question classifier (utils/question_classifier.py)                      *)
(***************************************************************************)
\* sub in s
Contains(s, sub) ==
  \E i \in 0..(Len(s) - Len(sub)) : SubSeq(s, i + 1, i + Len(sub)) = sub

fiqh_keywords_en ==
  {<<"r","u","l","i","n","g">>,
   <<"r","u","l","i","n","g","s">>,
   <<"p","e","r","m","i","s","s","i","b","l","e">>,
   <<"h","a","r","a","m">>,
   <<"h","a","l","a","l">>,
   <<"a","l","l","o","w","e","d">>,
   <<"f","o","r","b","i","d","d","e","n">>,
   <<"m","a","k","r","u","h">>,
   <<"m","u","s","t","a","h","a","b">>,
   <<"w","a","j","i","b">>,
   <<"f","a","r","d">>,
   <<"s","u","n","n","a","h">>,
   <<"m","a","d","h","a","b">>,
   <<"m","a","l","i","k","i">>,
   <<"f","i","q","h">>,
   <<"j","u","r","i","s","p","r","u","d","e","n","c","e">>,
   <<"i","s","l","a","m","i","c"," ","l","a","w">>,
   <<"c","a","n"," ","i">>,
   <<"i","s"," ","i","t"," ","a","l","l","o","w","e","d">>,
   <<"i","s"," ","i","t"," ","p","e","r","m","i","s","s","i","b","l","e">>,
   <<"w","h","a","t"," ","i","s"," ","t","h","e"," ","r","u","l","i","n","g">>,
   <<"h","o","w"," ","t","o"," ","p","r","a","y">>,
   <<"h","o","w"," ","t","o"," ","p","e","r","f","o","r","m">>,
   <<"w","u","d","u">>,
   <<"g","h","u","s","l">>,
   <<"t","a","y","a","m","m","u","m">>,
   <<"z","a","k","a","t">>,
   <<"n","i","s","a","b">>,
   <<"h","a","j","j">>,
   <<"u","m","r","a","h">>,
   <<"f","a","s","t">>,
   <<"f","a","s","t","i","n","g">>,
   <<"s","a","w","m">>,
   <<"m","a","r","r","i","a","g","e">>,
   <<"d","i","v","o","r","c","e">>,
   <<"i","n","h","e","r","i","t","a","n","c","e">>,
   <<"b","u","s","i","n","e","s","s">>,
   <<"t","r","a","n","s","a","c","t","i","o","n">>,
   <<"i","n","t","e","r","e","s","t">>,
   <<"r","i","b","a">>,
   <<"m","a","r","r","i","a","g","e"," ","c","o","n","t","r","a","c","t">>,
   <<"w","a","l","i">>,
   <<"m","a","h","r">>}

fiqh_keywords_ar ==
  {<<"HAH","KAF","MEEM">>,
   <<"ALEF_WITH_HAMZA_ABOVE","HAH","KAF","ALEF","MEEM">>,
   <<"HAH","LAM","ALEF","LAM">>,
   <<"HAH","REH","ALEF","MEEM">>,
   <<"MEEM","KAF","REH","WAW","HEH">>,
   <<"MEEM","SEEN","TEH","HAH","BEH">>,
   <<"WAW","ALEF","JEEM","BEH">>,
   <<"FEH","REH","DAD">>,
   <<"SEEN","NOON","TEH_MARBUTA">>,
   <<"MEEM","THAL","HEH","BEH">>,
   <<"ALEF","LAM","MEEM","ALEF","LAM","KAF","YEH","TEH_MARBUTA">>,
   <<"FEH","QAF","HEH">>,
   <<"SHEEN","REH","AIN">>,
   <<"YEH","JEEM","WAW","ZAIN">>,
   <<"JEEM","ALEF","YEH_WITH_HAMZA_ABOVE","ZAIN">>,
   <<"MEEM","MEEM","NOON","WAW","AIN">>,
   <<"KAF","YEH","FEH"," ","ALEF_WITH_HAMZA_ABOVE","SAD","LAM","YEH">>,
   <<"KAF","YEH","FEH","YEH","TEH_MARBUTA">>,
   <<"WAW","DAD","WAW","HAMZA">>,
   <<"GHAIN","SEEN","LAM">>,
   <<"TEH","YEH","MEEM","MEEM">>,
   <<"ZAIN","KAF","ALEF","TEH_MARBUTA">>,
   <<"NOON","SAD","ALEF","BEH">>,
   <<"HAH","JEEM">>,
   <<"AIN","MEEM","REH","TEH_MARBUTA">>,
   <<"SAD","YEH","ALEF","MEEM">>,
   <<"SAD","WAW","MEEM">>,
   <<"REH","MEEM","DAD","ALEF","NOON">>,
   <<"NOON","KAF","ALEF","HAH">>,
   <<"ZAIN","WAW","ALEF","JEEM">>,
   <<"TAH","LAM","ALEF","QAF">>,
   <<"MEEM","YEH","REH","ALEF","THEH">>,
   <<"MEEM","AIN","ALEF","MEEM","LAM","ALEF","TEH">>,
   <<"BEH","YEH","AIN">>,
   <<"SHEEN","REH","ALEF","HAMZA">>,
   <<"REH","BEH","ALEF">>,
   <<"FEH","WAW","ALEF","YEH_WITH_HAMZA_ABOVE","DAL">>,
   <<"WAW","LAM","YEH">>,
   <<"MEEM","HEH","REH">>}

quran_keywords ==
  {<<"s","u","r","a","h">>,
   <<"s","u","r","a">>,
   <<"a","y","a","h">>,
   <<"v","e","r","s","e">>,
   <<"q","u","r","a","n">>,
   <<"q","u","r","'","a","n">>,
   <<"r","e","c","i","t","e">>,
   <<"SEEN","WAW","REH","TEH_MARBUTA">>,
   <<"ALEF_WITH_MADDA_ABOVE","YEH","TEH_MARBUTA">>,
   <<"QAF","REH","ALEF_WITH_MADDA_ABOVE","NOON">>,
   <<"ALEF","TEH","LAM">>,
   <<"QAF","REH","ALEF","HAMZA","TEH_MARBUTA">>,
   <<"FEH","ALEF","TEH","HAH","TEH_MARBUTA">>,
   <<"BEH","QAF","REH","TEH_MARBUTA">>,
   <<"ALEF_WITH_HAMZA_BELOW","KHAH","LAM","ALEF","SAD">>}

hadith_keywords ==
  {<<"h","a","d","i","t","h">>,
   <<"h","a","d","i","s">>,
   <<"n","a","r","r","a","t","i","o","n">>,
   <<"p","r","o","p","h","e","t"," ","s","a","i","d">>,
   <<"REH","SEEN","WAW","LAM"," ","ALEF","LAM","LAM","HEH">>,
   <<"HAH","DAL","YEH","THEH">>,
   <<"ALEF_WITH_HAMZA_ABOVE","HAH","ALEF","DAL","YEH","THEH">>,
   <<"REH","WAW","ALEF_MAKSURA">>,
   <<"REH","WAW","ALEF","YEH","TEH_MARBUTA">>,
   <<"ALEF","LAM","NOON","BEH","YEH">>,
   <<"SAD","LAM","ALEF_MAKSURA"," ","ALEF","LAM","LAM","HEH"," ","AIN","LAM","YEH","HEH"," ","WAW","SEEN","LAM","MEEM">>}

\* is_fiqh_question with the Quran keywords looked at first
is_fiqh_question_QuranFirst(question) ==
  LET question_lower == Lower(question)
  IN  IF \E keyword \in quran_keywords : Contains(question_lower, keyword)
        THEN [is_fiqh |-> FALSE, category |-> <<"q","u","r","a","n">>]
      ELSE IF \E keyword \in fiqh_keywords_en : Contains(question_lower, keyword)
        THEN [is_fiqh |-> TRUE, category |-> <<"f","i","q","h">>]
      ELSE IF \E keyword \in fiqh_keywords_ar : Contains(question, keyword)
        THEN [is_fiqh |-> TRUE, category |-> <<"f","i","q","h">>]
      ELSE IF \E keyword \in hadith_keywords : Contains(question_lower, keyword)
        THEN [is_fiqh |-> FALSE, category |-> <<"h","a","d","i","t","h">>]
      ELSE [is_fiqh |-> FALSE, category |-> <<"g","e","n","e","r","a","l">>]

\* is_fiqh_question: [is_fiqh, category]
is_fiqh_question(question) ==
  LET question_lower == Lower(question)
  IN  IF \E keyword \in fiqh_keywords_en : Contains(question_lower, keyword)
        THEN [is_fiqh |-> TRUE, category |-> <<"f","i","q","h">>]
      ELSE IF \E keyword \in fiqh_keywords_ar : Contains(question, keyword)
        THEN [is_fiqh |-> TRUE, category |-> <<"f","i","q","h">>]
      ELSE IF \E keyword \in quran_keywords : Contains(question_lower, keyword)
        THEN [is_fiqh |-> FALSE, category |-> <<"q","u","r","a","n">>]
      ELSE IF \E keyword \in hadith_keywords : Contains(question_lower, keyword)
        THEN [is_fiqh |-> FALSE, category |-> <<"h","a","d","i","t","h">>]
      ELSE [is_fiqh |-> FALSE, category |-> <<"g","e","n","e","r","a","l">>]

(***************************************************************************)
(* OrchestratorService.should_use_multi_madhab (orchestrator_service.py)   *)
(***************************************************************************)
multi_madhab_indicators ==
  {<<"a","l","l"," ","m","a","d","h","a","b","s">>,
   <<"a","l","l"," ","s","c","h","o","o","l","s">>,
   <<"c","o","m","p","a","r","e">>,
   <<"d","i","f","f","e","r","e","n","c","e","s">>,
   <<"MEEM","QAF","ALEF","REH","NOON","TEH_MARBUTA">>,
   <<"ALEF","LAM","FEH","REH","QAF">>,
   <<"JEEM","MEEM","YEH","AIN"," ","ALEF","LAM","MEEM","THAL","ALEF","HEH","BEH">>,
   <<"KAF","LAM"," ","ALEF","LAM","MEEM","THAL","ALEF","HEH","BEH">>}

specific_madhab_indicators ==
  {<<"m","a","l","i","k","i">>,
   <<"h","a","n","a","f","i">>,
   <<"s","h","a","f","i","i">>,
   <<"h","a","n","b","a","l","i">>,
   <<"MEEM","ALEF","LAM","KAF","YEH">>,
   <<"HAH","NOON","FEH","YEH">>,
   <<"SHEEN","ALEF","FEH","AIN","YEH">>,
   <<"HAH","NOON","BEH","LAM","YEH">>}

ReasonComparison ==
  <<"U","s","e","r"," ","e","x","p","l","i","c","i","t","l","y"," ","a","s",
  "k","e","d"," ","f","o","r"," ","c","o","m","p","a","r","i","s","o","n",
  " ","a","c","r","o","s","s"," ","m","a","d","h","a","b","s">>

ReasonSpecific ==
  <<"Q","u","e","s","t","i","o","n"," ","i","s"," ","a","b","o","u","t"," ",
  "a"," ","s","p","e","c","i","f","i","c"," ","m","a","d","h","a","b",",",
  " ","n","o","t"," ","m","u","l","t","i","-","m","a","d","h","a","b"," ",
  "c","o","m","p","a","r","i","s","o","n">>

ReasonGeneral ==
  <<"G","e","n","e","r","a","l"," ","f","i","q","h"," ","q","u","e","s","t",
  "i","o","n"," ","-"," ","p","r","o","v","i","d","e"," ","m","u","l","t",
  "i","-","m","a","d","h","a","b"," ","p","e","r","s","p","e","c","t","i",
  "v","e">>

\* the keyword check with the single-school test first
_fallback_keyword_check_SchoolFirst(question) ==
  LET question_lower == Lower(question)
  IN  IF \E indicator \in specific_madhab_indicators : Contains(question_lower, indicator)
        THEN [multi |-> FALSE, reason |-> ReasonSpecific]
      ELSE [multi |-> TRUE,
            reason |-> IF \E indicator \in multi_madhab_indicators :
                             Contains(question_lower, indicator)
                         THEN ReasonComparison ELSE ReasonGeneral]

\* _fallback_keyword_check: the tuple (bool, reason) as [multi, reason]
_fallback_keyword_check(question) ==
  LET question_lower == Lower(question)
  IN  IF \E indicator \in multi_madhab_indicators : Contains(question_lower, indicator)
        THEN [multi |-> TRUE, reason |-> ReasonComparison]
      ELSE IF \E indicator \in specific_madhab_indicators :
                Contains(question_lower, indicator)
        THEN [multi |-> FALSE, reason |-> ReasonSpecific]
      ELSE [multi |-> TRUE, reason |-> ReasonGeneral]

\* the texts the generator answers with: the decision as JSON, the
\* decision followed by a line feed, the decision inside a sentence, an
\* empty object, JSON that is no object, and two texts that are not JSON
JsonTrue ==
  <<"{","\"","n","e","e","d","s","_","m","u","l","t","i","_","m","a","d","h",
  "a","b","\"",":"," ","t","r","u","e",","," ","\"","r","e","a","s","o","n",
  "\"",":"," ","\"","r","\"","}">>

JsonFalse ==
  <<"{","\"","n","e","e","d","s","_","m","u","l","t","i","_","m","a","d","h",
  "a","b","\"",":"," ","f","a","l","s","e","}">>

\* objects whose needs_multi_madhab is a string, a number, null
JsonString == <<"{","\"","n","e","e","d","s","_","m","u","l","t","i","_","m","a","d","h","a","b","\"",":"," ","\"","y","e","s","\"","}">>
JsonNumber == <<"{","\"","n","e","e","d","s","_","m","u","l","t","i","_","m","a","d","h","a","b","\"",":"," ","1","}">>
JsonNull == <<"{","\"","n","e","e","d","s","_","m","u","l","t","i","_","m","a","d","h","a","b","\"",":"," ","n","u","l","l","}">>

TextFalseLine == JsonFalse \o <<"\n">>
TextEmbedded == <<"A","n","s","w","e","r",":"," ">> \o JsonFalse \o <<" ",".">>
TextEmptyObject == <<"{","}">>
TextBareTrue == <<"t","r","u","e">>
TextProse == <<"Y","e","s",","," ","t","r","u","e",".">>
TextBadObject == <<"{","n","e","e","d","s","_","m","u","l","t","i","_","m","a","d","h","a","b",":"," ","n","o","}">>

\* json.loads on the texts above: [ok, is_dict, value]; ok is FALSE for
\* JSONDecodeError
json_loads(text) ==
  IF text = JsonTrue
    THEN [ok |-> TRUE, is_dict |-> TRUE,
          value |-> [needs_multi_madhab |-> TRUE, reason |-> <<"r">>]]
  ELSE IF text = JsonFalse
    THEN [ok |-> TRUE, is_dict |-> TRUE, value |-> [needs_multi_madhab |-> FALSE]]
  ELSE IF text = TextEmptyObject
    THEN [ok |-> TRUE, is_dict |-> TRUE, value |-> <<>>]
  ELSE IF text = JsonString
    THEN [ok |-> TRUE, is_dict |-> TRUE,
          value |-> [needs_multi_madhab |-> <<"y","e","s">>]]
  ELSE IF text = JsonNumber
    THEN [ok |-> TRUE, is_dict |-> TRUE, value |-> [needs_multi_madhab |-> 1]]
  ELSE IF text = JsonNull
    THEN [ok |-> TRUE, is_dict |-> TRUE, value |-> [needs_multi_madhab |-> None]]
  ELSE IF text = TextBareTrue
    THEN [ok |-> TRUE, is_dict |-> FALSE, value |-> <<>>]
  ELSE [ok |-> FALSE, is_dict |-> FALSE, value |-> <<>>]

\* the brace matching loop: the text from the first "{" at depth 0 to the
\* "}" that closes it, None when there is none.  start_idx is 0 for -1.
RECURSIVE json_match(_, _, _, _)
json_match(response_text, i, brace_count, start_idx) ==
  IF i > Len(response_text) THEN None
  ELSE IF response_text[i] = "{"
    THEN json_match(response_text, i + 1, brace_count + 1,
                    IF brace_count = 0 THEN i ELSE start_idx)
  ELSE IF response_text[i] = "}"
    THEN IF brace_count - 1 = 0 /\ start_idx # 0
           THEN SubSeq(response_text, start_idx, i)
         ELSE json_match(response_text, i + 1, brace_count - 1, start_idx)
  ELSE json_match(response_text, i + 1, brace_count, start_idx)

ReasonLLMDefault ==
  <<"L","L","M"," ","a","n","a","l","y","s","i","s"," ","c","o","m","p","l",
  "e","t","e","d">>

ReasonInferTrue ==
  <<"L","L","M"," ","d","e","t","e","r","m","i","n","e","d"," ","m","u","l",
  "t","i","-","m","a","d","h","a","b"," ","r","e","s","p","o","n","s","e",
  " ","i","s"," ","n","e","e","d","e","d">>

ReasonInferFalse ==
  <<"L","L","M"," ","d","e","t","e","r","m","i","n","e","d"," ","s","i","n",
  "g","l","e"," ","r","e","s","p","o","n","s","e"," ","i","s"," ","s","u",
  "f","f","i","c","i","e","n","t">>

\* (result.get("needs_multi_madhab", False), result.get("reason", ...))
DecisionOf(result) ==
  [multi |-> IF "needs_multi_madhab" \in DOMAIN result
               THEN result["needs_multi_madhab"] ELSE FALSE,
   reason |-> IF "reason" \in DOMAIN result THEN result["reason"]
              ELSE ReasonLLMDefault]

\* the try block of should_use_multi_madhab.  generated is what
\* generate_content does: [kind |-> "raises"], [kind |-> "none"] (it
\* returns None) or [kind |-> "text", text |-> the response].  Calling
\* strip on None and get on a value that is no dict raise inside the try.
LLMDecision(question, generated) ==
  IF generated.kind \in {"raises", "none"} THEN _fallback_keyword_check(question)
  ELSE
  LET response_text == generated.text
      whole == json_loads(Strip(response_text))
  IN  IF whole.ok
        THEN IF whole.is_dict THEN DecisionOf(whole.value)
             ELSE _fallback_keyword_check(question)
      ELSE
      LET match == json_match(response_text, 1, 0, 0)
      IN  IF match # None /\ json_loads(match).ok
            THEN DecisionOf(json_loads(match).value)
          ELSE IF Contains(Lower(response_text), <<"t","r","u","e">>)
            THEN [multi |-> TRUE, reason |-> ReasonInferTrue]
          ELSE [multi |-> FALSE, reason |-> ReasonInferFalse]

\* the format specifications of the replacement fields of the f-string
\* analysis_prompt: {question} has none; the braces of the JSON example are
\* not doubled, so they are one more field, the expression
\* "needs_multi_madhab" with the rest of the example as its specification
QuestionFormatSpec == <<>>

ExampleFormatSpec ==
  <<" ","t","r","u","e","/","f","a","l","s","e",",","\n"," "," ","\"","n","e",
  "e","d","s","_","w","e","b","_","s","e","a","r","c","h","\"",":"," ","t",
  "r","u","e","/","f","a","l","s","e",",","\n"," "," ","\"","r","e","a","s",
  "o","n","\"",":"," ","\"","1","-","2"," ","c","o","n","c","i","s","e"," ",
  "s","e","n","t","e","n","c","e","s"," ","e","x","p","l","a","i","n","i",
  "n","g"," ","t","h","e"," ","d","e","c","i","s","i","o","n","\"","\n">>

AnalysisPromptFormatSpecs == {QuestionFormatSpec, ExampleFormatSpec}

AlignChars == {"<", ">", "=", "^"}

DigitChars == {Digits[i] : i \in 1..Len(Digits)}

RECURSIVE SkipDigits(_)
SkipDigits(s) ==
  IF s # <<>> /\ Head(s) \in DigitChars THEN SkipDigits(Tail(s)) ELSE s

\* format(value, format_spec) of a str raises ValueError: the
\* specification is [[fill]align][sign][z][#][0][width][grouping]
\* [.precision][type]; of these a str takes fill, the aligns < > ^, 0,
\* width, precision and the type s
str_format_raises(format_spec) ==
  LET n == Len(format_spec)
      align == IF n >= 2 /\ format_spec[2] \in AlignChars THEN format_spec[2]
               ELSE IF n >= 1 /\ format_spec[1] \in AlignChars THEN format_spec[1]
               ELSE ""
      a == IF n >= 2 /\ format_spec[2] \in AlignChars THEN SubSeq(format_spec, 3, n)
           ELSE IF n >= 1 /\ format_spec[1] \in AlignChars THEN Tail(format_spec)
           ELSE format_spec
      sign == a # <<>> /\ Head(a) \in {"+", "-", " "}
      b == IF sign THEN Tail(a) ELSE a
      z == b # <<>> /\ Head(b) = "z"
      c == IF z THEN Tail(b) ELSE b
      alternate == c # <<>> /\ Head(c) = "#"
      d == IF alternate THEN Tail(c) ELSE c
      e == SkipDigits(d)
      grouping == e # <<>> /\ Head(e) \in {",", "_"}
      f == IF grouping THEN Tail(e) ELSE e
      dot == f # <<>> /\ Head(f) = "."
      g == IF dot THEN SkipDigits(Tail(f)) ELSE f
  IN  \/ dot /\ g = Tail(f)
      \/ Len(g) > 1
      \/ g # <<>> /\ g # <<"s">>
      \/ sign \/ z \/ alternate \/ grouping
      \/ align = "="

\* the client GeminiService() constructs
GeminiService == <<"GeminiService">>

ReasonNotFiqh(category) ==
  <<"Q","u","e","s","t","i","o","n"," ","i","s"," ","a","b","o","u","t"," ">>
    \o category
    \o <<","," ","n","o","t"," ","f","i","q","h","."," ","M","u","l","t","i",
       "-","m","a","d","h","a","b"," ","o","n","l","y"," ","f","o","r"," ",
       "f","i","q","h"," ","q","u","e","s","t","i","o","n","s",".">>

\* OrchestratorService.should_use_multi_madhab.  construct_raises: the
\* import or the constructor of GeminiService raises.  The client is
\* constructed and the prompt is formatted before the try.
\* [raised, ret, _gemini_service, generate_calls]; no ret when it raised.
OrchestratorService_should_use_multi_madhab(gemini_service, question, construct_raises, generated) ==
  IF gemini_service = None /\ construct_raises
    THEN [raised |-> TRUE, _gemini_service |-> None, generate_calls |-> 0]
  ELSE
  LET classified == is_fiqh_question(question)
  IN  IF ~classified.is_fiqh
        THEN [raised |-> FALSE,
              ret |-> [multi |-> FALSE, reason |-> ReasonNotFiqh(classified.category)],
              _gemini_service |-> GeminiService, generate_calls |-> 0]
      ELSE IF \E format_spec \in AnalysisPromptFormatSpecs :
                str_format_raises(format_spec)
        THEN [raised |-> TRUE, _gemini_service |-> GeminiService,
              generate_calls |-> 0]
      ELSE [raised |-> FALSE, ret |-> LLMDecision(question, generated),
            _gemini_service |-> GeminiService, generate_calls |-> 1]

(***************************************************************************)
(* populate_all_madhabs.py                                                 *)
(***************************************************************************)
\* ingest_documents: add_document for every document in turn, counting the
\* ones that returned True.  ids[i] is the uuid4 drawn for documents[i] and
\* faults[i] the call that raises while adding it.  [ret, store].
RECURSIVE ingest_documents_loop(_, _, _, _, _)
ingest_documents_loop(st, documents, ids, faults, added) ==
  IF documents = <<>> THEN [ret |-> added, store |-> st]
  ELSE
  LET doc == Head(documents)
      r == FiqhRAG_add_document(st, doc.text, doc.metadata, Head(ids), Head(faults))
  IN  ingest_documents_loop(r.store, Tail(documents), Tail(ids), Tail(faults),
                            IF r.ret THEN added + 1 ELSE added)

(***************************************************************************)
(* CacheService (src/src/services/cache_service.py).  cache is the object: *)
(* redis_enabled and memory_cache, a function from the keys held to their  *)
(* values; redis is what the Redis server holds, a function from keys to   *)
(* pickled values.  The stats counters do not reach any return value and   *)
(* are left out; so are expiry and eviction.                               *)
(***************************************************************************)
\* pickle.dumps and pickle.loads: the bytes of a value, and back
pickle_dumps(value) == [pickle |-> value]
pickle_loads(bytes) == bytes.pickle

\* dict[key] = value
DictSet(d, key, value) ==
  [k \in DOMAIN d \cup {key} |-> IF k = key THEN value ELSE d[k]]

\* del dict[key] for a key that may be absent
DictDel(d, key) == [k \in DOMAIN d \ {key} |-> d[k]]

\* CacheService.get: Redis first when it is enabled; a key Redis does not
\* hold, or an exception of the Redis call, falls through to memory_cache
CacheService_get(c, r, key, redis_raises) ==
  IF c.redis_enabled /\ ~redis_raises /\ key \in DOMAIN r
    THEN pickle_loads(r[key])
  ELSE IF key \in DOMAIN c.memory_cache THEN c.memory_cache[key]
  ELSE None

\* CacheService.set: setex on Redis when it is enabled, its exception
\* logged; then memory_cache[key] = value.  [ret, cache, redis]
CacheService_set(c, r, key, value, redis_raises) ==
  [ret |-> TRUE,
   cache |-> [c EXCEPT !.memory_cache = DictSet(@, key, value)],
   redis |-> IF c.redis_enabled /\ ~redis_raises
               THEN DictSet(r, key, pickle_dumps(value)) ELSE r]

\* CacheService.delete: delete on Redis when it is enabled, its exception
\* logged; then the key leaves memory_cache.  [ret, cache, redis]
CacheService_delete(c, r, key, redis_raises) ==
  [ret |-> TRUE,
   cache |-> [c EXCEPT !.memory_cache = DictDel(@, key)],
   redis |-> IF c.redis_enabled /\ ~redis_raises THEN DictDel(r, key) ELSE r]


(***************************************************************************)
(* Inputs                                                                  *)
(***************************************************************************)
MaxPoints == 2
MaxResults == 2

salah == <<"s","a","l","a","h">>

\* a school name with a leading blank and a capital, an Arabic alias with
\* the article, and a name no table entry matches
RawMaliki == <<" ","M","a","l","i","k","i">>
AlHanafi == ArabicAl \o ArHanafi
Invalid == <<"i","n","v","a","l","i","d">>

aaa == <<"a","a","a">>
aaab == <<"a","a","a","b">>

\* the documents of ingestion: two per school that reach a collection, under
\* the school spellings above and with or without a category, one with a
\* school name that is not recognised and one without a school
Documents ==
  {[text |-> aaa,  metadata |-> [madhab |-> RawMaliki, category |-> salah]],
   [text |-> aaab, metadata |-> [madhab |-> RawMaliki]],
   [text |-> aaa,  metadata |-> [madhab |-> AlHanafi]],
   [text |-> aaab, metadata |-> [madhab |-> hanafi, category |-> salah]],
   [text |-> aaa,  metadata |-> [madhab |-> Invalid, category |-> salah]],
   [text |-> aaa,  metadata |-> <<>>]}

AddFaults == {"none", "get_collection", "create_collection", "encode", "upsert"}

BatchLen == 2

BatchDocuments ==
  {[text |-> aaa, metadata |-> [madhab |-> RawMaliki, category |-> salah]],
   [text |-> aaa, metadata |-> [madhab |-> AlHanafi]],
   [text |-> aaa, metadata |-> [madhab |-> Invalid, category |-> salah]]}

\* the batches of ingest_documents: BatchLen documents, each added without
\* a fault or with a failing upsert
Batches ==
  {[documents |-> d, faults |-> f] :
     d \in [1..BatchLen -> BatchDocuments], f \in [1..BatchLen -> {"none", "upsert"}]}

\* the madhabs argument of search: None, the empty list, one school, two
\* schools, one school under two spellings, and lists with a name that is
\* not recognised
MadhabArgs ==
  {[none |-> TRUE, items |-> <<>>]}
  \cup {[none |-> FALSE, items |-> m] :
          m \in {<<>>, <<RawMaliki>>, <<hanafi>>, <<hanafi, RawMaliki>>,
                 <<hanafi, AlHanafi>>, <<Invalid>>, <<Invalid, hanafi>>}}

CategoryFilters == {None, salah}

\* 0.5 (the default of search) and 0.99
Thresholds == {[p |-> 1, q |-> 2], [p |-> 99, q |-> 100]}

NoFault == [encode |-> FALSE, search |-> {}]

SearchFaults ==
  {[encode |-> TRUE, search |-> {}]}
  \cup {[encode |-> FALSE, search |-> {collection_for_madhab(k)}] :
          k \in {maliki, hanafi}}

Question == <<"A","a","a">>
BlankQueries == {<<>>, <<" ","\t">>}

\* the calls of search: every combination of result count (none, one, the
\* most), madhab list, category filter and threshold without faults; every
\* result count and madhab list under each fault; every madhab list with a
\* blank query
SearchCalls ==
  {[query |-> Question, n_results |-> n, madhabs |-> m, category_filter |-> c,
    score_threshold |-> t, faults |-> NoFault] :
     n \in {0, 1, MaxResults}, m \in MadhabArgs, c \in CategoryFilters, t \in Thresholds}
  \cup
  {[query |-> Question, n_results |-> n, madhabs |-> m, category_filter |-> None,
    score_threshold |-> [p |-> 1, q |-> 2], faults |-> f] :
     n \in {0, 1, MaxResults}, m \in MadhabArgs, f \in SearchFaults}
  \cup
  {[query |-> b, n_results |-> MaxResults, madhabs |-> m, category_filter |-> None,
    score_threshold |-> [p |-> 1, q |-> 2], faults |-> NoFault] :
     b \in BlankQueries, m \in MadhabArgs}

\* the calls of search_madhabs_separately: no result, one and the most per
\* school for every madhab list without faults, three madhab lists under
\* each fault, a blank query
SeparateCalls ==
  {[query |-> Question, madhabs |-> m, n_results_per_madhab |-> n, faults |-> NoFault] :
     m \in MadhabArgs, n \in {0, 1, MaxResults}}
  \cup
  {[query |-> Question, madhabs |-> m, n_results_per_madhab |-> MaxResults, faults |-> f] :
     m \in {[none |-> TRUE, items |-> <<>>],
            [none |-> FALSE, items |-> <<hanafi>>],
            [none |-> FALSE, items |-> <<hanafi, RawMaliki>>]},
     f \in SearchFaults}
  \cup
  {[query |-> <<" ","\t">>, madhabs |-> [none |-> TRUE, items |-> <<>>],
    n_results_per_madhab |-> MaxResults, faults |-> NoFault]}

\* max_context_length: nothing, less than one block, one block, two blocks
\* to the character, and the default
ContextLengths == {0, 105, 109, 214, 2000}

\* the calls of get_relevant_context: every length without faults for all
\* schools, one school, two schools and an unrecognised name; the default
\* length under each fault and with a blank query
ContextCalls ==
  {[query |-> Question, max_context_length |-> l, madhabs |-> m, faults |-> NoFault] :
     l \in ContextLengths,
     m \in {[none |-> TRUE, items |-> <<>>],
            [none |-> FALSE, items |-> <<hanafi>>],
            [none |-> FALSE, items |-> <<hanafi, RawMaliki>>],
            [none |-> FALSE, items |-> <<Invalid>>]}}
  \cup
  {[query |-> Question, max_context_length |-> 2000,
    madhabs |-> [none |-> TRUE, items |-> <<>>], faults |-> f] : f \in SearchFaults}
  \cup
  {[query |-> b, max_context_length |-> 2000,
    madhabs |-> [none |-> TRUE, items |-> <<>>], faults |-> NoFault] : b \in BlankQueries}

\* max_context_length of the legacy engine: less than one block, two blocks
\* to the character, and the default
LegacyContextLengths == {88, 174, 2000}

LegacyContextCalls ==
  {[query |-> Question, max_context_length |-> l, faults |-> NoFault] :
     l \in LegacyContextLengths}
  \cup
  {[query |-> Question, max_context_length |-> 2000,
    faults |-> [encode |-> TRUE, search |-> {}]]}

\* the collections whose get_collection raises during get_statistics
StatisticsFaults == {{}, {collection_for_madhab(maliki)}}

\* the questions put to the orchestrator: English and Arabic; about fiqh
\* in general, naming one school, asking for a comparison, both; about the
\* Quran, about hadith, about neither
QZakat ==
  <<"W","h","a","t"," ","i","s"," ","z","a","k","a","t"," ","n","i","s","a",
  "b","?">>

QCompare ==
  <<"C","o","m","p","a","r","e"," ","M","a","l","i","k","i"," ","a","n","d",
  " ","H","a","n","a","f","i"," ","w","u","d","u">>

QMaliki ==
  <<"M","a","l","i","k","i"," ","r","u","l","i","n","g"," ","o","n"," ","w",
  "u","d","u">>

QSurah ==
  <<"S","h","o","w"," ","m","e"," ","S","u","r","a","h"," ","A","l","-","F",
  "a","t","i","h","a">>

QHello ==
  <<"h","e","l","l","o">>

QHadith ==
  <<"h","a","d","i","t","h"," ","a","b","o","u","t"," ","m","e","r","c","y">>

QUpper ==
  <<"H","A","N","A","F","I"," ","f","a","s","t","i","n","g"," ","d","i","f",
  "f","e","r","e","n","c","e","s">>

QBreakfast ==
  <<"I","s"," ","b","r","e","a","k","f","a","s","t"," ","g","o","o","d","?">>

QArRuling ==
  <<"MEEM","ALEF"," ","HAH","KAF","MEEM"," ","ALEF","LAM","WAW","DAD","WAW",
  "HAMZA","QUESTION_MARK">>

QArHanafi ==
  <<"HAH","KAF","MEEM"," ","ALEF","LAM","WAW","DAD","WAW","HAMZA"," ","AIN",
  "NOON","DAL"," ","ALEF","LAM","HAH","NOON","FEH","YEH">>

QArCompare ==
  <<"MEEM","QAF","ALEF","REH","NOON","TEH_MARBUTA"," ","HAH","KAF","MEEM"," ",
  "ALEF","LAM","WAW","DAD","WAW","HAMZA"," ","MEEM","ALEF","LAM","KAF",
  "YEH">>

QArProphet ==
  <<"MEEM","NOON"," ","HEH","WAW"," ","ALEF","LAM","NOON","BEH","YEH">>

Questions ==
  {QZakat, QCompare, QMaliki, QSurah, QHello, QHadith,
   QUpper, QBreakfast, QArRuling, QArHanafi, QArCompare, QArProphet}

\* more questions for is_fiqh_question: keywords of two lists in one
\* question, upper case, Arabic, and no keyword
QVerseFasting ==
  <<"Q","u","r","a","n"," ","v","e","r","s","e"," ","a","b","o","u","t"," ",
  "f","a","s","t","i","n","g">>

QHadithWudu ==
  <<"H","a","d","i","t","h"," ","o","n"," ","w","u","d","u">>

QVerseHadith ==
  <<"A"," ","v","e","r","s","e"," ","a","n","d"," ","a"," ","h","a","d","i",
  "t","h"," ","o","n"," ","m","e","r","c","y">>

QReciteUpper ==
  <<"R","E","C","I","T","E"," ","S","U","R","A","H"," ","Y","A","S","I","N">>

QNarration ==
  <<"N","a","r","r","a","t","i","o","n"," ","o","f"," ","A","b","u"," ","B",
  "a","k","r">>

QArSurah ==
  <<"SEEN","WAW","REH","TEH_MARBUTA"," ","ALEF","LAM","FEH","ALEF","TEH",
  "HAH","TEH_MARBUTA">>

QArHadith ==
  <<"HAH","DAL","YEH","THEH"," ","AIN","NOON"," ","ALEF","LAM","REH","HAH",
  "MEEM","TEH_MARBUTA">>

QArVerseFasting ==
  <<"ALEF_WITH_MADDA_ABOVE","YEH","TEH_MARBUTA"," ","AIN","NOON"," ","ALEF",
  "LAM","SAD","YEH","ALEF","MEEM">>

QToday ==
  <<"H","o","w"," ","a","r","e"," ","y","o","u"," ","t","o","d","a","y","?">>

QArVerseHadith ==
  <<"ALEF_WITH_MADDA_ABOVE","YEH","TEH_MARBUTA"," ","WAW"," ","HAH","DAL",
  "YEH","THEH">>

ClassifierQuestions ==
  Questions
  \cup {QVerseFasting, QHadithWudu, QVerseHadith, QReciteUpper, QNarration,
        QArSurah, QArHadith, QArVerseFasting, QToday, QArVerseHadith}

GeneratorTexts ==
  {JsonTrue, TextFalseLine, TextEmbedded, TextEmptyObject, TextBareTrue,
   TextProse, TextBadObject, JsonString, JsonNumber, JsonNull}

\* what generate_content does in a call
GeneratorOutcomes ==
  {[kind |-> "raises"], [kind |-> "none"]}
  \cup {[kind |-> "text", text |-> t] : t \in GeneratorTexts}

\* str.upper() and str.capitalize() of the names below (Arabic letters have
\* no case)
UpperChar(c) == IF c \in LowerSet THEN UpperLetters[LowerIndex[c]] ELSE c

Upper(s) == [i \in 1..Len(s) |-> UpperChar(s[i])]

Capitalize(s) ==
  [i \in 1..Len(s) |-> IF i = 1 THEN UpperChar(s[i]) ELSE LowerChar(s[i])]

\* the names put to normalize_madhab_name: every spelling the function
\* lists, names it does not list, a name with a blank inside, and the
\* empty string; each in lower case, upper case and capitalised, bare and
\* with whitespace before, after and around it
BaseNames ==
  {maliki, <<"m","a","l","i","k","y">>,
   hanafi, <<"h","a","n","a","f","y">>,
   shafii, <<"s","h","a","f","i">>, <<"s","h","a","f","i","'","i">>,
   <<"s","h","a","f","e","i">>, <<"s","h","a","f","e","'","i">>,
   hanbali, <<"h","a","n","b","a","l","y">>,
   ArMaliki, ArabicAl \o ArMaliki, ArHanafi, ArabicAl \o ArHanafi,
   ArShafii, ArabicAl \o ArShafii, ArHanbali, ArabicAl \o ArHanbali,
   Invalid, <<"m","a","l","i","k">>, <<"m","a","l","i","k","i","s">>,
   <<"m","a","l"," ","i","k","i">>, <<>>}

Paddings ==
  {[left |-> <<>>, right |-> <<>>],
   [left |-> <<" ">>, right |-> <<>>],
   [left |-> <<>>, right |-> <<"\n">>],
   [left |-> <<"\t"," ">>, right |-> <<" ","\r">>],
   [left |-> <<" "," ">>, right |-> <<" ">>]}

Casings(s) == {s, Upper(s), Capitalize(s)}

Variants(s) ==
  {pad.left \o c \o pad.right : pad \in Paddings, c \in Casings(s)}

NameInputs == UNION {Variants(b) : b \in BaseNames}

\* score_threshold=0.5, the default of search
DefaultThreshold == [p |-> 1, q |-> 2]

\* the documents of the concurrent callers: one per school of two schools
\* and one whose school is not recognised
ConcurrentDocuments ==
  {[text |-> aaa,  metadata |-> [madhab |-> RawMaliki, category |-> salah]],
   [text |-> aaab, metadata |-> [madhab |-> AlHanafi]],
   [text |-> aaa,  metadata |-> [madhab |-> Invalid]]}

\* the madhabs argument of the concurrent searches: one school, two schools
ConcurrentMadhabs ==
  {[none |-> FALSE, items |-> <<RawMaliki>>],
   [none |-> FALSE, items |-> <<hanafi, RawMaliki>>]}

\* the keys and the values of the cache calls
CacheKeys == {"prayer_times:cairo", "quran:1"}
CacheValues == {<<"value1">>, <<"value2">>}

\* documents whose metadata has keys of its own next to madhab: a key
\* "text", a key "topic", both
PayloadDocuments ==
  {[text |-> aaa,  metadata |-> [madhab |-> hanafi, text |-> aaab]],
   [text |-> aaab, metadata |-> [madhab |-> RawMaliki, topic |-> salah]],
   [text |-> aaa,  metadata |-> [madhab |-> AlHanafi, topic |-> salah, text |-> aaa]],
   [text |-> aaab, metadata |-> [madhab |-> Invalid, text |-> aaa]]}

\* the collections whose lookup and whose creation raise while the engine
\* is constructed: a creation is attempted only where the lookup raised
ConstructionFaults ==
  {[lookup_raises |-> l, create_raises |-> c] :
     l \in SUBSET {collection_for_madhab(maliki), collection_for_madhab(hanafi)},
     c \in SUBSET {collection_for_madhab(maliki), collection_for_madhab(hanafi)}}

(***************************************************************************)
(* State                                                                   *)
(*   store: the _collections of the one vector store both engines open     *)
(*   last:  the call in progress at the caller: its arguments and what it  *)
(*          returned; [op |-> "idle"] between calls                        *)
(*   _gemini_service: the text generator client of the orchestrator, None  *)
(*          until should_use_multi_madhab constructs it                    *)
(***************************************************************************)
Idle == [op |-> "idle"]

RECURSIVE SumLen(_, _)
SumLen(st, S) ==
  IF S = {} THEN 0
  ELSE LET c == CHOOSE x \in S : TRUE IN Len(st[c]) + SumLen(st, S \ {c})

TotalPoints(st) == SumLen(st, DOMAIN st)

UsedIds(st) == UNION {{st[c][i].id : i \in 1..Len(st[c])} : c \in DOMAIN st}

\* uuid4 values not yet drawn: any of them may come next
FreshIds(st) == (1..MaxPoints) \ UsedIds(st)

\* FiqhRAG.__init__: _ensure_collection for the four keys; get_collection
\* of the fallback store never raises, so nothing is created
RECURSIVE EnsureAll(_, _)
EnsureAll(st, keys) ==
  IF keys = <<>> THEN st
  ELSE EnsureAll(_ensure_collection(st, collection_for_madhab(Head(keys)),
                                    FALSE, FALSE).store,
                 Tail(keys))

\* the callers that use the engine at the same time
Threads == {1, 2}

\* a caller between calls; acked holds the points of its add_document
\* calls that returned True
NoCall(acked) == [pc |-> "idle", acked |-> acked]

\* CacheService.__init__: Redis not connected, nothing in memory
NewCacheService == [redis_enabled |-> FALSE, memory_cache |-> <<>>]

Init ==
  /\ store = EnsureAll(<<>>, MADHAB_KEYS)
  /\ last = Idle
  /\ _gemini_service = None
  /\ rag = FiqhRAGEngine
  /\ threads = [t \in Threads |-> NoCall({})]
  /\ cache = NewCacheService
  /\ redis = <<>>

\* before FiqhRAG is constructed: an empty database and no engine
ConstructionInit ==
  /\ store = <<>>
  /\ last = Idle
  /\ _gemini_service = None
  /\ rag = None
  /\ threads = [t \in Threads |-> NoCall({})]
  /\ cache = NewCacheService
  /\ redis = <<>>

\* FiqhRAG(...): the construction of the engine
__init__(create_all_collections, client_raises, model_raises, lookup_raises, create_raises) ==
  /\ last.op = "idle"
  /\ rag = None
  /\ LET r == FiqhRAG___init__(store, create_all_collections, client_raises,
                               model_raises, lookup_raises, create_raises)
     IN  /\ store' = r.store
         /\ rag' = IF r.raised THEN None ELSE FiqhRAGEngine
         /\ last' = [op |-> "__init__",
                     create_all_collections |-> create_all_collections,
                     client_raises |-> client_raises,
                     model_raises |-> model_raises,
                     lookup_raises |-> lookup_raises,
                     create_raises |-> create_raises,
                     raised |-> r.raised]
  /\ UNCHANGED <<_gemini_service, threads, cache, redis>>

add_document(text, metadata, fault) ==
  /\ last.op = "idle"
  /\ TotalPoints(store) < MaxPoints
  /\ \E id \in FreshIds(store) :
       LET r == FiqhRAG_add_document(store, text, metadata, id, fault)
       IN  /\ store' = r.store
           /\ last' = [op |-> "add_document", text |-> text,
                       metadata |-> metadata, fault |-> fault, ret |-> r.ret]
  /\ UNCHANGED <<_gemini_service, elsewhere>>

\* upload_book_image with add_to_knowledge_base: the OCR text goes through
\* MalikiFiqhRAG.add_document with the router's metadata
upload_book_image(title, category, extracted_text, fault) ==
  /\ last.op = "idle"
  /\ TotalPoints(store) < MaxPoints
  /\ extracted_text # <<>>
  /\ \E id \in FreshIds(store) :
       LET metadata == [topic |-> title,
                        madhab |-> <<"M","a","l","i","k","i">>,
                        category |-> category,
                        source |-> <<"U","s","e","r">>,
                        references |-> <<"U","s","e","r">>]
           r == MalikiFiqhRAG_add_document(store, collection_for_madhab(maliki),
                                           extracted_text, metadata, id, fault)
       IN  /\ store' = r.store
           /\ last' = [op |-> "upload_book_image", text |-> extracted_text,
                       metadata |-> metadata, fault |-> fault, ret |-> r.ret]
  /\ UNCHANGED <<_gemini_service, elsewhere>>

ingest_documents(documents, faults) ==
  /\ last.op = "idle"
  /\ TotalPoints(store) + Len(documents) <= MaxPoints
  /\ \E ids \in [1..Len(documents) -> FreshIds(store)] :
       /\ \A i, j \in 1..Len(ids) : i # j => ids[i] # ids[j]
       /\ LET r == ingest_documents_loop(store, documents, ids, faults, 0)
          IN  /\ store' = r.store
              /\ last' = [op |-> "ingest_documents", documents |-> documents,
                          faults |-> faults, ids |-> ids, ret |-> r.ret]
  /\ UNCHANGED <<_gemini_service, elsewhere>>

search(query, n_results, madhabs, category_filter, score_threshold, faults) ==
  /\ last.op = "idle"
  /\ LET r == FiqhRAG_search(store, query, n_results, madhabs, category_filter,
                             score_threshold, faults)
     IN  last' = [op |-> "search", query |-> query, n_results |-> n_results,
                  madhabs |-> madhabs, category_filter |-> category_filter,
                  score_threshold |-> score_threshold, faults |-> faults,
                  ret |-> r.ret, encode_calls |-> r.encode_calls,
                  queried |-> r.queried]
  /\ UNCHANGED <<store, _gemini_service, elsewhere>>

search_madhabs_separately(query, madhabs, n_results_per_madhab, faults) ==
  /\ last.op = "idle"
  /\ last' = [op |-> "search_madhabs_separately", query |-> query,
              madhabs |-> madhabs, n_results_per_madhab |-> n_results_per_madhab,
              faults |-> faults,
              ret |-> OrchestratorService_search_madhabs_separately(
                        store, query, madhabs, n_results_per_madhab, faults)]
  /\ UNCHANGED <<store, _gemini_service, elsewhere>>

get_relevant_context(query, max_context_length, madhabs, faults) ==
  /\ last.op = "idle"
  /\ last' = [op |-> "get_relevant_context", query |-> query,
              max_context_length |-> max_context_length, madhabs |-> madhabs,
              faults |-> faults,
              ret |-> FiqhRAG_get_relevant_context(store, query, max_context_length,
                                                  madhabs, faults)]
  /\ UNCHANGED <<store, _gemini_service, elsewhere>>

\* get_relevant_context of the legacy engine on "maliki_fiqh"
maliki_get_relevant_context(query, max_context_length, faults) ==
  /\ last.op = "idle"
  /\ last' = [op |-> "maliki_get_relevant_context", query |-> query,
              max_context_length |-> max_context_length, faults |-> faults,
              ret |-> MalikiFiqhRAG_get_relevant_context(
                        store, collection_for_madhab(maliki), query,
                        max_context_length, faults)]
  /\ UNCHANGED <<store, _gemini_service, elsewhere>>

get_statistics(failing) ==
  /\ last.op = "idle"
  /\ last' = [op |-> "get_statistics", failing |-> failing,
              ret |-> FiqhRAG_get_statistics(store, failing)]
  /\ UNCHANGED <<store, _gemini_service, elsewhere>>

\* should_use_multi_madhab; the constructor can raise only in a call that
\* constructs the client
should_use_multi_madhab(question, construct_raises, generated) ==
  /\ last.op = "idle"
  /\ construct_raises => _gemini_service = None
  /\ LET r == OrchestratorService_should_use_multi_madhab(
                _gemini_service, question, construct_raises, generated)
         call == [op |-> "should_use_multi_madhab", question |-> question,
                  construct_raises |-> construct_raises, generated |-> generated,
                  raised |-> r.raised, generate_calls |-> r.generate_calls]
     IN  /\ _gemini_service' = r._gemini_service
         /\ last' = IF r.raised THEN call
                    ELSE [k \in DOMAIN call \cup {"ret"} |->
                            IF k = "ret" THEN r.ret ELSE call[k]]
  /\ UNCHANGED <<store, elsewhere>>

\* _fallback_keyword_check called on its own
keyword_check(question) ==
  /\ last.op = "idle"
  /\ last' = [op |-> "_fallback_keyword_check", question |-> question,
              ret |-> _fallback_keyword_check(question)]
  /\ UNCHANGED <<store, _gemini_service, elsewhere>>

\* normalize_madhab_name called on its own
normalize(name) ==
  /\ last.op = "idle"
  /\ last' = [op |-> "normalize_madhab_name", name |-> name,
              ret |-> normalize_madhab_name(name)]
  /\ UNCHANGED <<store, _gemini_service, elsewhere>>

\* is_fiqh_question called on its own
classify(question) ==
  /\ last.op = "idle"
  /\ last' = [op |-> "is_fiqh_question", question |-> question,
              ret |-> is_fiqh_question(question)]
  /\ UNCHANGED <<store, _gemini_service, elsewhere>>

\* connect_redis: from_url and ping; an exception leaves Redis disabled
connect_redis(raises) ==
  /\ last.op = "idle"
  /\ cache' = [cache EXCEPT !.redis_enabled = ~raises]
  /\ last' = [op |-> "connect_redis", raises |-> raises]
  /\ UNCHANGED <<store, _gemini_service, rag, threads, redis>>

set(key, value, redis_raises) ==
  /\ last.op = "idle"
  /\ LET r == CacheService_set(cache, redis, key, value, redis_raises)
     IN  /\ cache' = r.cache
         /\ redis' = r.redis
         /\ last' = [op |-> "set", key |-> key, value |-> value,
                     redis_raises |-> redis_raises, ret |-> r.ret]
  /\ UNCHANGED <<store, _gemini_service, rag, threads>>

get(key, redis_raises) ==
  /\ last.op = "idle"
  /\ last' = [op |-> "get", key |-> key, redis_raises |-> redis_raises,
              ret |-> CacheService_get(cache, redis, key, redis_raises)]
  /\ UNCHANGED <<store, _gemini_service, rag, threads, cache, redis>>

delete(key, redis_raises) ==
  /\ last.op = "idle"
  /\ LET r == CacheService_delete(cache, redis, key, redis_raises)
     IN  /\ cache' = r.cache
         /\ redis' = r.redis
         /\ last' = [op |-> "delete", key |-> key,
                     redis_raises |-> redis_raises, ret |-> r.ret]
  /\ UNCHANGED <<store, _gemini_service, rag, threads>>


(***************************************************************************)
(* Concurrent callers.  Each caller runs one call at a time; a step is one *)
(* call on the shared client or one operation on its dict and lists, which *)
(* the interpreter runs as a whole.  What a caller computes on its own     *)
(* values (normalising, encoding, building the point, merging) is folded   *)
(* into the step before or after.                                          *)
(***************************************************************************)
\* ids held by points that are built and not yet stored
PendingIds ==
  {threads[t].point.id : t \in {u \in Threads : threads[u].pc \in {"upsert", "extend"}}}

\* callers inside add_document that may still store a point
Adding ==
  {t \in Threads : threads[t].pc \in {"get_collection", "create_collection",
                                      "encode", "upsert", "extend"}}

\* add_document up to the call of _ensure_collection: a madhab that is not
\* recognised raises ValueError, caught: the call returns False
t_add_document(t, text, metadata) ==
  /\ threads[t].pc = "idle"
  /\ TotalPoints(store) + Cardinality(Adding) < MaxPoints
  /\ LET madhab_raw == PayloadGet(metadata, "madhab")
         madhab_key == IF madhab_raw # None /\ madhab_raw # <<>>
                         THEN normalize_madhab_name(madhab_raw) ELSE None
     IN  threads' = [threads EXCEPT ![t] =
           IF madhab_key = None
             THEN [pc |-> "done", op |-> "add_document", ret |-> FALSE,
                   acked |-> @.acked]
           ELSE [pc |-> "get_collection", op |-> "add_document",
                 text |-> text, metadata |-> metadata, madhab_key |-> madhab_key,
                 collection_name |-> collection_for_madhab(madhab_key),
                 lookup_raised |-> FALSE, acked |-> @.acked]]
  /\ UNCHANGED <<store, last, _gemini_service, rag, cache, redis>>

\* _ensure_collection: self.client.get_collection, which returns or raises
t_get_collection(t, raises) ==
  /\ threads[t].pc = "get_collection"
  /\ threads' = [threads EXCEPT ![t].pc = IF raises THEN "create_collection"
                                          ELSE "encode",
                                ![t].lookup_raised = raises]
  /\ UNCHANGED <<store, last, _gemini_service, rag, cache, redis>>

\* create_collection that raises on a collection that already exists, which
\* ends add_document with False
t_create_collection_AlreadyExists(t) ==
  /\ threads[t].pc = "create_collection"
  /\ IF threads[t].collection_name \in DOMAIN store
       THEN /\ threads' = [threads EXCEPT ![t] =
                 [pc |-> "done", op |-> "add_document", ret |-> FALSE,
                  acked |-> @.acked]]
            /\ UNCHANGED store
     ELSE /\ store' = create_collection(store, threads[t].collection_name)
          /\ threads' = [threads EXCEPT ![t].pc = "encode"]
  /\ UNCHANGED <<last, _gemini_service, rag, cache, redis>>


\* _ensure_collection: self.client.create_collection in the handler
t_create_collection(t) ==
  /\ threads[t].pc = "create_collection"
  /\ store' = create_collection(store, threads[t].collection_name)
  /\ threads' = [threads EXCEPT ![t].pc = "encode"]
  /\ UNCHANGED <<last, _gemini_service, rag, cache, redis>>

\* embedding_model.encode and PointStruct(id=str(uuid.uuid4()), ...); an
\* exception of encode is caught: the call returns False
t_encode(t, raises) ==
  /\ threads[t].pc = "encode"
  /\ \E id \in (1..MaxPoints) \ (UsedIds(store) \cup PendingIds) :
       threads' = [threads EXCEPT ![t] =
         IF raises
           THEN [pc |-> "done", op |-> "add_document", ret |-> FALSE,
                 acked |-> @.acked]
         ELSE [pc |-> "upsert", op |-> "add_document",
               collection_name |-> @.collection_name,
               lookup_raised |-> @.lookup_raised,
               point |-> [id |-> id, vector |-> encode(@.text),
                          payload |-> CanonicalPayload(@.text, @.metadata,
                                                       @.madhab_key)],
               acked |-> @.acked]]
  /\ UNCHANGED <<store, last, _gemini_service, rag, cache, redis>>

\* client.upsert: self._collections.setdefault(collection_name, []); an
\* exception of upsert is caught: the call returns False
t_upsert(t, raises) ==
  /\ threads[t].pc = "upsert"
  /\ IF raises
       THEN /\ threads' = [threads EXCEPT ![t] =
                 [pc |-> "done", op |-> "add_document", ret |-> FALSE,
                  acked |-> @.acked]]
            /\ UNCHANGED store
     ELSE /\ store' = create_collection(store, threads[t].collection_name)
          /\ threads' = [threads EXCEPT ![t].pc = "extend"]
  /\ UNCHANGED <<last, _gemini_service, rag, cache, redis>>

\* upsert that binds the collection to a new list holding the point
t_extend_Rebind(t) ==
  /\ threads[t].pc = "extend"
  /\ store' = [store EXCEPT ![threads[t].collection_name] = <<threads[t].point>>]
  /\ threads' = [threads EXCEPT ![t] =
       [pc |-> "done", op |-> "add_document", ret |-> TRUE,
        acked |-> @.acked \cup {threads[t].point}]]
  /\ UNCHANGED <<last, _gemini_service, rag, cache, redis>>


\* client.upsert: .extend(points) on the list setdefault returned, then
\* return True
t_extend(t) ==
  /\ threads[t].pc = "extend"
  /\ store' = [store EXCEPT ![threads[t].collection_name] =
                 @ \o <<threads[t].point>>]
  /\ threads' = [threads EXCEPT ![t] =
       [pc |-> "done", op |-> "add_document", ret |-> TRUE,
        acked |-> @.acked \cup {threads[t].point}]]
  /\ UNCHANGED <<last, _gemini_service, rag, cache, redis>>

\* search up to the loop over the selected schools
t_search(t, n_results, madhabs) ==
  /\ threads[t].pc = "idle"
  /\ threads' = [threads EXCEPT ![t] =
       [pc |-> "get", op |-> "search", n_results |-> n_results,
        madhabs |-> madhabs, remaining |-> SelectedMadhabs(madhabs),
        view |-> <<>>, acked |-> @.acked]]
  /\ UNCHANGED <<store, last, _gemini_service, rag, cache, redis>>

\* client.search: items = self._collections.get(collection_name, []); a
\* collection that is missing gives a list of its own
t_items(t) ==
  /\ threads[t].pc = "get"
  /\ threads' = [threads EXCEPT ![t] =
       [pc |-> "scan", op |-> "search", n_results |-> @.n_results,
        madhabs |-> @.madhabs, remaining |-> @.remaining, view |-> @.view,
        attached |-> collection_for_madhab(Head(@.remaining)) \in DOMAIN store,
        seen |-> <<>>, acked |-> @.acked]]
  /\ UNCHANGED <<store, last, _gemini_service, rag, cache, redis>>

\* client.search: one turn of "for p in items": the next point of the list
\* as it is now, or the end of the loop; after the last school, the merge
t_scan(t) ==
  /\ threads[t].pc = "scan"
  /\ LET th == threads[t]
         collection_name == collection_for_madhab(Head(th.remaining))
         items == IF th.attached THEN store[collection_name] ELSE <<>>
         view == [c \in DOMAIN th.view \cup {collection_name} |->
                    IF c = collection_name THEN th.seen ELSE th.view[c]]
     IN  threads' = [threads EXCEPT ![t] =
           IF Len(th.seen) < Len(items)
             THEN [th EXCEPT !.seen = Append(@, items[Len(th.seen) + 1])]
           ELSE IF Len(th.remaining) > 1
             THEN [pc |-> "get", op |-> "search", n_results |-> th.n_results,
                   madhabs |-> th.madhabs, remaining |-> Tail(th.remaining),
                   view |-> view, acked |-> th.acked]
           ELSE [pc |-> "done", op |-> "search", madhabs |-> th.madhabs,
                 n_results |-> th.n_results, view |-> view,
                 ret |-> FiqhRAG_search(view, Question, th.n_results, th.madhabs,
                                        None, DefaultThreshold, NoFault).ret,
                 acked |-> th.acked]]
  /\ UNCHANGED <<store, last, _gemini_service, rag, cache, redis>>

\* the caller takes the result of its call
t_return(t) ==
  /\ threads[t].pc = "done"
  /\ threads' = [threads EXCEPT ![t] = NoCall(@.acked)]
  /\ UNCHANGED <<store, last, _gemini_service, rag, cache, redis>>


\* the caller takes the result
Return ==
  /\ last.op # "idle"
  /\ last' = Idle
  /\ UNCHANGED <<store, _gemini_service, elsewhere>>

Next ==
  \/ last.op = "idle" /\ \E d \in Documents, fault \in AddFaults :
       add_document(d.text, d.metadata, fault)
  \/ last.op = "idle" /\ \E fault \in {"none", "upsert"} :
       upload_book_image(<<"W","u","d","u">>, salah, aaa, fault)
  \/ last.op = "idle" /\ \E b \in Batches : ingest_documents(b.documents, b.faults)
  \/ last.op = "idle" /\ \E c \in SearchCalls :
       search(c.query, c.n_results, c.madhabs, c.category_filter,
              c.score_threshold, c.faults)
  \/ last.op = "idle" /\ \E c \in SeparateCalls :
       search_madhabs_separately(c.query, c.madhabs, c.n_results_per_madhab, c.faults)
  \/ last.op = "idle" /\ \E c \in ContextCalls :
       get_relevant_context(c.query, c.max_context_length, c.madhabs, c.faults)
  \/ last.op = "idle" /\ \E c \in LegacyContextCalls :
       maliki_get_relevant_context(c.query, c.max_context_length, c.faults)
  \/ last.op = "idle" /\ \E failing \in StatisticsFaults : get_statistics(failing)
  \/ Return

Spec == Init /\ [][Next]_vars

\* the orchestrator deciding on questions; it neither reads nor writes the
\* vector store
OrchestratorNext ==
  \/ \E question \in Questions, construct_raises \in BOOLEAN,
        generated \in GeneratorOutcomes :
       should_use_multi_madhab(question, construct_raises, generated)
  \/ \E question \in Questions : keyword_check(question)
  \/ Return

OrchestratorSpec == Init /\ [][OrchestratorNext]_vars

\* the pure functions called on their own
FunctionsNext ==
  \/ \E name \in NameInputs : normalize(name)
  \/ \E question \in ClassifierQuestions : classify(question)
  \/ Return

FunctionsSpec == Init /\ [][FunctionsNext]_vars

\* the construction of the engine on a store whose lookups and creations
\* may fail, and the first documents added to the constructed engine
ConstructionNext ==
  \/ \E create_all_collections \in BOOLEAN, client_raises \in BOOLEAN,
        model_raises \in BOOLEAN, f \in ConstructionFaults :
       __init__(create_all_collections, client_raises, model_raises,
                f.lookup_raises, f.create_raises)
  \/ rag # None /\ \E d \in Documents, fault \in AddFaults :
       add_document(d.text, d.metadata, fault)
  \/ Return

ConstructionSpec == ConstructionInit /\ [][ConstructionNext]_vars

\* the callers of Threads adding documents and searching at the same time
ConcurrentNext ==
  \/ \E t \in Threads, d \in ConcurrentDocuments :
       t_add_document(t, d.text, d.metadata)
  \/ \E t \in Threads, raises \in BOOLEAN : t_get_collection(t, raises)
  \/ \E t \in Threads : t_create_collection(t)
  \/ \E t \in Threads, raises \in BOOLEAN : t_encode(t, raises)
  \/ \E t \in Threads, raises \in BOOLEAN : t_upsert(t, raises)
  \/ \E t \in Threads : t_extend(t)
  \/ \E t \in Threads, madhabs \in ConcurrentMadhabs :
       t_search(t, MaxResults, madhabs)
  \/ \E t \in Threads : t_items(t)
  \/ \E t \in Threads : t_scan(t)
  \/ \E t \in Threads : t_return(t)

ConcurrentSpec == Init /\ [][ConcurrentNext]_vars

\* the cache service: connecting to Redis, then set, get and delete with
\* Redis calls that may fail
CacheNext ==
  \/ \E raises \in BOOLEAN : connect_redis(raises)
  \/ \E key \in CacheKeys, value \in CacheValues, redis_raises \in BOOLEAN :
       set(key, value, redis_raises)
  \/ \E key \in CacheKeys, redis_raises \in BOOLEAN : get(key, redis_raises)
  \/ \E key \in CacheKeys, redis_raises \in BOOLEAN : delete(key, redis_raises)
  \/ Return

CacheSpec == Init /\ [][CacheNext]_vars

\* documents with metadata keys of their own added to the engine, and the
\* searches that read them back
PayloadNext ==
  \/ last.op = "idle" /\ \E d \in PayloadDocuments, fault \in AddFaults :
       add_document(d.text, d.metadata, fault)
  \/ last.op = "idle" /\ \E n \in {1, MaxResults}, t \in Thresholds :
       search(Question, n, [none |-> TRUE, items |-> <<>>], None, t, NoFault)
  \/ Return

PayloadSpec == Init /\ [][PayloadNext]_vars

TypeOK ==
  /\ DOMAIN store \subseteq {collection_for_madhab(k) : k \in MadhabKeySet}
  /\ TotalPoints(store) <= MaxPoints
  /\ last.op \in {"idle", "add_document", "upload_book_image",
                 "ingest_documents", "search", "search_madhabs_separately",
                 "get_relevant_context", "maliki_get_relevant_context",
                 "get_statistics", "should_use_multi_madhab",
                 "_fallback_keyword_check", "normalize_madhab_name",
                 "is_fiqh_question", "__init__", "connect_redis",
                 "set", "get", "delete"}
  /\ _gemini_service \in {None, GeminiService}
  /\ rag \in {None, FiqhRAGEngine}

(***************************************************************************)
(* Properties                                                              *)
(***************************************************************************)
Searched == last.op = "search"

\* a search that got past the blank-query return and embedded the query
Ranked == Searched /\ last.encode_calls = 1 /\ ~last.faults.encode

\* a string of whitespace only (the empty string included)
IsBlank(q) == \A i \in 1..Len(q) : q[i] \in Whitespace

\* the school each school name of the inputs stands for; Invalid stands
\* for none
SchoolOf == (RawMaliki :> maliki) @@ (hanafi :> hanafi) @@ (AlHanafi :> hanafi)

\* the canonical keys the entries of a madhab list stand for
RecognizedKeys(madhabs) ==
  IF madhabs.none THEN {}
  ELSE {SchoolOf[madhabs.items[i]] :
          i \in {j \in 1..Len(madhabs.items) : madhabs.items[j] \in DOMAIN SchoolOf}}

\* metadata whose madhab is missing or stands for no school
BadMadhab(metadata) ==
  "madhab" \notin DOMAIN metadata \/ metadata["madhab"] \notin DOMAIN SchoolOf

\* the schools a call is to search
TargetKeys(madhabs) ==
  IF RecognizedKeys(madhabs) = {} THEN MadhabKeySet ELSE RecognizedKeys(madhabs)

Fiqh(k) == k \o <<"_","f","i","q","h">>

PointsOf(st, k) == CollectionItems(st, Fiqh(k))

\* the stored points a call may return: in a target collection whose search
\* does not raise, passing the category filter and the score threshold
Qualifying ==
  UNION {
    {[key |-> k, id |-> PointsOf(store, k)[i].id,
      score |-> _cosine(encode(last.query), PointsOf(store, k)[i].vector)] :
       i \in {j \in 1..Len(PointsOf(store, k)) :
                /\ \/ last.category_filter = None
                   \/ PayloadGet(PointsOf(store, k)[j].payload, "category")
                        = last.category_filter
                /\ ScoreAtLeast(_cosine(encode(last.query),
                                        PointsOf(store, k)[j].vector),
                                last.score_threshold)}} :
    k \in {t \in TargetKeys(last.madhabs) : Fiqh(t) \notin last.faults.search}}

Returned ==
  {[key |-> last.ret[i].metadata["madhab"], id |-> last.ret[i].id,
    score |-> last.ret[i].score] : i \in 1..Len(last.ret)}

\* C1: the results of search are in non-increasing order of score, whatever
\* collection each comes from
C1_ScoreDescending ==
  Searched =>
    \A i, j \in 1..Len(last.ret) :
      i < j => ~ScoreLess(last.ret[i].score, last.ret[j].score)

\* C1 witness: a hanafi result ranked before a maliki result of strictly
\* lower score, though the maliki collection is searched first
C1_Witness ==
  /\ Searched
  /\ last.madhabs.none
  /\ Len(last.ret) = 2
  /\ last.ret[1].metadata["madhab"] = hanafi
  /\ last.ret[2].metadata["madhab"] = maliki
  /\ ScoreLess(last.ret[2].score, last.ret[1].score)

\* C2 as stated: results of equal score are in ascending order of madhab
\* key and, within a madhab, in ascending order of id
C2_TieAscending ==
  Searched =>
    \A i, j \in 1..Len(last.ret) :
      (i < j /\ ScoreEq(last.ret[i].score, last.ret[j].score)) =>
        \/ StrLess(last.ret[i].metadata["madhab"], last.ret[j].metadata["madhab"])
        \/ /\ last.ret[i].metadata["madhab"] = last.ret[j].metadata["madhab"]
           /\ last.ret[i].id <= last.ret[j].id

\* C2 amended: results of equal score are in descending order of madhab key
\* and, within a madhab, in descending order of id
C2_TieDescending ==
  Searched =>
    \A i, j \in 1..Len(last.ret) :
      (i < j /\ ScoreEq(last.ret[i].score, last.ret[j].score)) =>
        \/ StrLess(last.ret[j].metadata["madhab"], last.ret[i].metadata["madhab"])
        \/ /\ last.ret[i].metadata["madhab"] = last.ret[j].metadata["madhab"]
           /\ last.ret[i].id >= last.ret[j].id

\* C2 witness: two results of equal score from different madhabs, the
\* hanafi collection having been searched first
C2_Witness ==
  /\ Searched
  /\ ~last.madhabs.none
  /\ Len(last.madhabs.items) = 2
  /\ last.madhabs.items = <<hanafi, RawMaliki>>
  /\ Len(last.ret) = 2
  /\ ScoreEq(last.ret[1].score, last.ret[2].score)
  /\ last.ret[1].metadata["madhab"] = maliki
  /\ last.ret[2].metadata["madhab"] = hanafi

\* C3: with no fault, search returns exactly the n_results highest-ranked
\* qualifying points (all of them when there are fewer): as many results as
\* that, each a different qualifying point, and no qualifying point left
\* out has a higher score than a returned one
C3_TopNOverall ==
  (Ranked /\ last.faults = NoFault) =>
    /\ Len(last.ret) <= last.n_results
    /\ Len(last.ret) = Min(last.n_results, Cardinality(Qualifying))
    /\ Returned \subseteq Qualifying
    /\ Cardinality(Returned) = Len(last.ret)
    /\ \A q \in Qualifying \ Returned, r \in Returned : ~ScoreLess(r.score, q.score)

\* C4: an add_document that returns True adds exactly one point to the
\* collection of the school its madhab stands for, alias or not, and leaves
\* the other collections as they were
C4_AddIsolated ==
  [][(last'.op = "add_document" /\ last'.ret) =>
       LET k == SchoolOf[last'.metadata["madhab"]]
       IN  /\ Len(PointsOf(store', k)) = Len(PointsOf(store, k)) + 1
           /\ \A o \in MadhabKeySet \ {k} : PointsOf(store', o) = PointsOf(store, o)]_vars

\* C4 witness: a document ingested under the Arabic alias is the second
\* point of the hanafi collection
C4_Witness ==
  /\ last.op = "add_document"
  /\ last.ret
  /\ last.metadata["madhab"] = AlHanafi
  /\ Len(PointsOf(store, hanafi)) = 2

\* the documents of a batch that are valid and meet no fault
GoodDocs(call) ==
  {i \in 1..Len(call.documents) :
     ~BadMadhab(call.documents[i].metadata) /\ call.faults[i] = "none"}

\* C5: add_document returns False and stores nothing when the madhab is
\* missing or unrecognised or when ensuring the collection, embedding or
\* the upsert fails, and stores exactly one point when it returns True; a
\* batch stores every document that is valid and meets no fault, whatever
\* happened to the documents before it
C5_AddNeverRaises ==
  [][/\ last'.op = "add_document" =>
          /\ last'.ret \in BOOLEAN
          /\ (\/ BadMadhab(last'.metadata)
              \/ last'.fault \in {"create_collection", "encode", "upsert"})
               => ~last'.ret
          /\ ~last'.ret => \A k \in MadhabKeySet : PointsOf(store', k) = PointsOf(store, k)
          /\ last'.ret => TotalPoints(store') = TotalPoints(store) + 1
     /\ last'.op = "ingest_documents" =>
          /\ last'.ret = Cardinality(GoodDocs(last'))
          /\ TotalPoints(store') = TotalPoints(store) + Cardinality(GoodDocs(last'))
          /\ \A i \in 1..Len(last'.documents) :
               last'.ids[i] \in UsedIds(store') <=> i \in GoodDocs(last')]_vars

\* C5 witness: a batch whose first document has no recognised madhab and
\* whose second document is stored
C5_Witness ==
  /\ last.op = "ingest_documents"
  /\ BadMadhab(last.documents[1].metadata)
  /\ last.ret = 1
  /\ last.ids[2] \in UsedIds(store)

\* C6 as stated: every point of collection k_fiqh has payload madhab k
C6_PayloadCanonical ==
  \A k \in MadhabKeySet :
    \A i \in 1..Len(PointsOf(store, k)) :
      PayloadGet(PointsOf(store, k)[i].payload, "madhab") = k

\* C7: every result carries the key of a school the call names and is a
\* point of that school's collection
C7_OnlySelectedSchools ==
  (Searched /\ RecognizedKeys(last.madhabs) # {}) =>
    \A i \in 1..Len(last.ret) :
      /\ last.ret[i].metadata["madhab"] \in RecognizedKeys(last.madhabs)
      /\ \E j \in 1..Len(PointsOf(store, last.ret[i].metadata["madhab"])) :
           PointsOf(store, last.ret[i].metadata["madhab"])[j].id = last.ret[i].id

\* C7 witness: a search of the maliki school alone returns a point while
\* the hanafi collection holds a point too
C7_Witness ==
  /\ Searched
  /\ RecognizedKeys(last.madhabs) = {maliki}
  /\ Len(last.ret) >= 1
  /\ Len(PointsOf(store, hanafi)) >= 1

\* C8: search queries the collections of the recognised entries only, and
\* all four collections when there is no recognised entry
C8_SelectedCollections ==
  Ranked =>
    {last.queried[i] : i \in 1..Len(last.queried)}
      = {Fiqh(k) : k \in (IF RecognizedKeys(last.madhabs) = {}
                            THEN {maliki, hanafi, shafii, hanbali}
                            ELSE RecognizedKeys(last.madhabs))}

\* C8 witness: a list of unrecognised entries only, answered from the
\* collections of two schools
C8_Witness ==
  /\ Ranked
  /\ last.madhabs.items = <<Invalid>>
  /\ Len(last.ret) = 2
  /\ last.ret[1].metadata["madhab"] # last.ret[2].metadata["madhab"]

\* the store with the given collections emptied
Emptied(st, failing) == [c \in DOMAIN st |-> IF c \in failing THEN <<>> ELSE st[c]]

\* C9: when the search of some collections raises, search returns the list
\* it returns when those collections are empty and nothing raises
C9_PartialFailure ==
  (Ranked /\ last.faults.search # {}) =>
    last.ret = FiqhRAG_search(Emptied(store, last.faults.search), last.query,
                              last.n_results, last.madhabs, last.category_filter,
                              last.score_threshold, NoFault).ret

\* C9 witness: the maliki collection holds a point and its search raises,
\* it is searched before the hanafi collection, and a hanafi point is returned
C9_Witness ==
  /\ Ranked
  /\ last.faults.search = {Fiqh(maliki)}
  /\ last.queried[1] = Fiqh(maliki)
  /\ Len(PointsOf(store, maliki)) >= 1
  /\ Len(last.ret) >= 1

\* C10: a blank query returns the empty list with no call of the embedder
\* and no query of a collection
C10_BlankQuery ==
  (Searched /\ IsBlank(last.query)) =>
    /\ last.ret = <<>>
    /\ last.encode_calls = 0
    /\ last.queried = <<>>

\* C10 witness: a query of a blank and a tab on a store that holds a point
C10_Witness ==
  /\ Searched
  /\ last.query = <<" ","\t">>
  /\ TotalPoints(store) >= 1

\* the score of the query of the call against a stored point
QueryScore(p) == _cosine(encode(last.query), p.vector)

\* the points of the schools the call is to search
TargetPoints ==
  UNION {{PointsOf(store, k)[i] : i \in 1..Len(PointsOf(store, k))} :
           k \in TargetKeys(last.madhabs)}

\* C11: every result of search is a stored point whose score against the
\* query is at least score_threshold, and search returns the empty list
\* when no point of the collections it is to search reaches the threshold
C11_ThresholdRespected ==
  Searched =>
    /\ \A i \in 1..Len(last.ret) :
         /\ ScoreAtLeast(last.ret[i].score, last.score_threshold)
         /\ \E p \in TargetPoints :
              p.id = last.ret[i].id /\ QueryScore(p) = last.ret[i].score
    /\ (\A p \in TargetPoints : ~ScoreAtLeast(QueryScore(p), last.score_threshold))
         => last.ret = <<>>

\* C11 witness: a search with threshold 0.99 returns nothing although the
\* collections it searched hold a point that passes the threshold 0.5
C11_Witness ==
  /\ Ranked
  /\ last.faults = NoFault
  /\ last.category_filter = None
  /\ last.score_threshold = [p |-> 99, q |-> 100]
  /\ last.n_results >= 1
  /\ last.ret = <<>>
  /\ \E p \in TargetPoints : ScoreAtLeast(QueryScore(p), [p |-> 1, q |-> 2])

\* the orders a sequence can be in
Orderings(s) ==
  IF s = <<>> THEN {<<>>}
  ELSE {[i \in 1..Len(s) |-> s[p[i]]] : p \in Permutations(1..Len(s))}

\* the stores over the collections cs that hold the points of st, each
\* collection in any order
RECURSIVE ReorderingsOver(_, _)
ReorderingsOver(st, cs) ==
  IF cs = {} THEN {<<>>}
  ELSE LET c == CHOOSE x \in cs : TRUE
       IN  {(c :> o) @@ r : o \in Orderings(st[c]), r \in ReorderingsOver(st, cs \ {c})}

Reorderings(st) == ReorderingsOver(st, DOMAIN st)

\* C12: what search returns is fixed by the points the collections hold and
\* by its arguments: the call on the same store, and on the store holding
\* the same points in any other stored order, returns the list it returned
C12_Deterministic ==
  Searched =>
    \A st \in Reorderings(store) :
      FiqhRAG_search(st, last.query, last.n_results, last.madhabs,
                     last.category_filter, last.score_threshold, last.faults).ret
        = last.ret

\* C12 witness: a collection holds two points of equal score, stored in
\* ascending order of id, and the search returns one of them only
C12_Witness ==
  /\ Ranked
  /\ last.n_results = 1
  /\ Len(last.ret) = 1
  /\ \E k \in TargetKeys(last.madhabs) :
       /\ Len(PointsOf(store, k)) = 2
       /\ PointsOf(store, k)[1].id < PointsOf(store, k)[2].id
       /\ ScoreEq(QueryScore(PointsOf(store, k)[1]), QueryScore(PointsOf(store, k)[2]))
       /\ last.ret[1].id = PointsOf(store, k)[2].id

\* s is a prefix of t
IsPrefix(s, t) == Len(s) <= Len(t) /\ SubSeq(t, 1, Len(s)) = s

ReadOps ==
  {"search", "get_relevant_context", "maliki_get_relevant_context",
   "get_statistics", "search_madhabs_separately"}

\* the number of add_document calls of a step that were for school k and
\* returned True (in a batch: the valid documents that met no fault)
AddsFor(call, k) ==
  IF call.op = "add_document"
    THEN IF call.ret /\ ~BadMadhab(call.metadata)
              /\ SchoolOf[call.metadata["madhab"]] = k THEN 1 ELSE 0
  ELSE IF call.op = "upload_book_image"
    THEN IF call.ret /\ k = maliki THEN 1 ELSE 0
  ELSE IF call.op = "ingest_documents"
    THEN Cardinality({i \in GoodDocs(call) :
                        SchoolOf[call.documents[i].metadata["madhab"]] = k})
  ELSE 0

\* C13: the collections start without points; every step leaves the stored
\* points of every collection as they are, in place, and adds as many
\* points to a collection as add_document calls for its school returned
\* True; search, get_relevant_context, get_statistics and
\* search_madhabs_separately leave the store unchanged
C13_StoreImmutable ==
  /\ TotalPoints(store) = 0
  /\ [][/\ \A k \in MadhabKeySet :
            /\ IsPrefix(PointsOf(store, k), PointsOf(store', k))
            /\ Len(PointsOf(store', k)) = Len(PointsOf(store, k)) + AddsFor(last', k)
        /\ last'.op \in ReadOps => store' = store]_vars

\* C13 witness: add_document found the collection missing at the lookup,
\* created it and stored a second point next to the one it held
C13_Witness ==
  /\ last.op = "add_document"
  /\ last.fault = "get_collection"
  /\ last.ret
  /\ Len(PointsOf(store, maliki)) = 2

Separate == last.op = "search_madhabs_separately"

\* the points of school k a separate search may return: those whose score
\* against the query is at least 0.3
Reaching(k) ==
  {PointsOf(store, k)[i].id :
     i \in {j \in 1..Len(PointsOf(store, k)) :
              ScoreAtLeast(QueryScore(PointsOf(store, k)[j]), [p |-> 3, q |-> 10])}}

\* C18: the keys of the map are the schools the madhab list stands for
\* (all four when it stands for none); under key k there are at most
\* n_results_per_madhab results, each a point of k's collection carrying
\* madhab k; a school whose search fails has the empty list, and every
\* other school has the list it has when nothing fails
C18_SeparateSearch ==
  Separate =>
    LET unfailing == OrchestratorService_search_madhabs_separately(
                       store, last.query, last.madhabs,
                       last.n_results_per_madhab, NoFault)
    IN  /\ DOMAIN last.ret = TargetKeys(last.madhabs)
        /\ \A k \in DOMAIN last.ret :
             /\ Len(last.ret[k]) <= last.n_results_per_madhab
             /\ \A i \in 1..Len(last.ret[k]) :
                  /\ last.ret[k][i].metadata["madhab"] = k
                  /\ last.ret[k][i].id \in Reaching(k)
             /\ Fiqh(k) \in last.faults.search => last.ret[k] = <<>>
             /\ (Fiqh(k) \notin last.faults.search /\ ~last.faults.encode
                   /\ ~IsBlank(last.query)) =>
                  /\ last.ret[k] = unfailing[k]
                  /\ Len(last.ret[k])
                       = Min(last.n_results_per_madhab, Cardinality(Reaching(k)))

\* C18 witness: two schools are asked for, the search of the maliki
\* collection fails, and the hanafi list holds a hanafi point
C18_Witness ==
  /\ Separate
  /\ last.madhabs.items = <<hanafi, RawMaliki>>
  /\ last.faults.search = {Fiqh(maliki)}
  /\ Len(PointsOf(store, maliki)) >= 1
  /\ DOMAIN last.ret = {maliki, hanafi}
  /\ last.ret[maliki] = <<>>
  /\ Len(last.ret[hanafi]) >= 1

Context == last.op = "get_relevant_context"

\* the ranked results get_relevant_context formats, and their blocks
ContextRanked ==
  FiqhRAG_search(store, last.query, 5, last.madhabs, None, [p |-> 3, q |-> 10],
                 last.faults).ret

ContextBlocks == [i \in 1..Len(ContextRanked) |-> FormatBlock(i, ContextRanked[i])]

RECURSIVE BlocksLen(_, _)
BlocksLen(blocks, k) == IF k = 0 THEN 0 ELSE Len(blocks[k]) + BlocksLen(blocks, k - 1)

\* C19: the context is the blocks of the first k ranked results, whole and
\* in ranked order, joined by a line feed, where k is the largest number of
\* leading blocks whose lengths sum to at most max_context_length; it is
\* at most max_context_length plus one block long, and it is empty when
\* search returns nothing
C19_WholeBlockPrefix ==
  Context =>
    LET ranked == ContextRanked
        blocks == [i \in 1..Len(ranked) |-> FormatBlock(i, ranked[i])]
    IN  /\ \E k \in 0..Len(ranked) :
             /\ BlocksLen(blocks, k) <= last.max_context_length
             /\ k < Len(ranked) =>
                  BlocksLen(blocks, k + 1) > last.max_context_length
             /\ last.ret = Join(SubSeq(blocks, 1, k))
        /\ \A i \in 1..Len(ranked) :
             Len(last.ret) <= last.max_context_length + Len(blocks[i])
        /\ ranked = <<>> => last.ret = <<>>

\* C19 witness: the first block does not fit, the second block alone would,
\* and the context is empty
C19_Witness ==
  /\ Context
  /\ Len(ContextRanked) = 2
  /\ Len(ContextBlocks[1]) > last.max_context_length
  /\ Len(ContextBlocks[2]) <= last.max_context_length
  /\ last.ret = <<>>

\* C20 as stated: the context has at most max_context_length characters
C20_ContextBounded ==
  last.op \in {"get_relevant_context", "maliki_get_relevant_context"} =>
    Len(last.ret) <= last.max_context_length

\* a call of should_use_multi_madhab at the caller
Decided == last.op = "should_use_multi_madhab"

\* C14: when the generator path fails for a question classified as fiqh
\* (the client cannot be constructed, generate_content raises, or it
\* returns no text), should_use_multi_madhab does not raise and returns
\* what _fallback_keyword_check returns for the question.
C14_FallbackOnFailure ==
  (/\ Decided
   /\ is_fiqh_question(last.question).is_fiqh
   /\ \/ last.construct_raises
      \/ last.generated.kind \in {"raises", "none"})
  => (~last.raised /\ last.ret = _fallback_keyword_check(last.question))

\* the generator texts of which neither the whole nor an embedded object
\* is JSON
UnparsableTexts == {TextProse, TextBadObject}

\* C15: when the generator returns text that cannot be parsed as the
\* decision, should_use_multi_madhab returns what the keyword check returns
\* for the question, not a value inferred from the text.
C15_UnparsableFallsBack ==
  (/\ Decided
   /\ is_fiqh_question(last.question).is_fiqh
   /\ ~last.construct_raises
   /\ last.generated.kind = "text"
   /\ last.generated.text \in UnparsableTexts)
  => (~last.raised /\ last.ret = _fallback_keyword_check(last.question))

\* C16: for a question is_fiqh_question classifies as non-fiqh,
\* should_use_multi_madhab returns (False, reason) and generate_content is
\* not called, whether or not the generator is available.
C16_NonFiqhImmediate ==
  (Decided /\ ~is_fiqh_question(last.question).is_fiqh)
  => (~last.raised /\ ~last.ret.multi /\ last.generate_calls = 0)

\* the questions that hold a comparison or all-schools phrase, and the
\* questions that name a school
Comparing == {QCompare, QUpper, QArCompare}

NamingSchool == {QCompare, QMaliki, QUpper, QArHanafi, QArCompare}

Normalized == last.op = "normalize_madhab_name"

\* what the tests of the repository expect of normalize_madhab_name
NormalizationTests ==
  (maliki :> maliki) @@ (Capitalize(maliki) :> maliki) @@ (Upper(maliki) :> maliki)
  @@ (hanafi :> hanafi) @@ (shafii :> shafii)
  @@ (<<"s","h","a","f","i","'","i">> :> shafii) @@ (hanbali :> hanbali)
  @@ (ArMaliki :> maliki) @@ (ArabicAl \o ArMaliki :> maliki)
  @@ (ArHanafi :> hanafi) @@ (ArabicAl \o ArHanafi :> hanafi)
  @@ (ArShafii :> shafii) @@ (ArabicAl \o ArShafii :> shafii)
  @@ (ArHanbali :> hanbali) @@ (ArabicAl \o ArHanbali :> hanbali)
  @@ (Invalid :> None) @@ (<<>> :> None) @@ (<<" "," "," ">> :> None)

\* C21: normalize_madhab_name returns one of the four canonical keys or
\* None; the result does not change with the case of the letters or with
\* whitespace around the name; a canonical key is mapped to itself, so a
\* result that is not None is mapped to itself; the empty and the blank
\* name give None.
C21_NormalizeCanonical ==
  Normalized =>
    /\ last.ret \in MadhabKeySet \cup {None}
    /\ \A v \in Variants(last.name) : normalize_madhab_name(v) = last.ret
    /\ \A k \in MadhabKeySet : normalize_madhab_name(k) = k
    /\ last.ret # None => normalize_madhab_name(last.ret) = last.ret
    /\ IsBlank(last.name) => last.ret = None
    /\ last.name \in DOMAIN NormalizationTests =>
         last.ret = NormalizationTests[last.name]

\* C21 witness: an upper-case alias with whitespace around it was mapped to
\* its canonical key
C21_Witness ==
  /\ Normalized
  /\ last.name = <<"\t"," ">> \o Upper(<<"s","h","a","f","e","'","i">>) \o <<" ","\r">>
  /\ last.ret = shafii

Classified == last.op = "is_fiqh_question"

\* the questions that hold a keyword of the fiqh lists, of the Quran list
\* and of the Hadith list
HasFiqhKeyword ==
  {QZakat, QCompare, QMaliki, QUpper, QBreakfast, QArRuling, QArHanafi,
   QArCompare, QVerseFasting, QHadithWudu, QArVerseFasting}

HasQuranKeyword ==
  {QSurah, QVerseFasting, QVerseHadith, QReciteUpper, QArSurah,
   QArVerseFasting, QArVerseHadith}

HasHadithKeyword ==
  {QHadith, QHadithWudu, QVerseHadith, QNarration, QArHadith, QArProphet,
   QArVerseHadith}

\* C22: is_fiqh_question answers (True, "fiqh") for a question with a fiqh
\* keyword, whatever else it holds; otherwise (False, "quran") for one with
\* a Quran keyword, also when it holds a Hadith keyword; otherwise
\* (False, "hadith") for one with a Hadith keyword; otherwise
\* (False, "general"); and the answer is the same for the question in upper
\* and in lower case.
C22_ClassifierPriority ==
  Classified =>
    /\ last.ret =
         IF last.question \in HasFiqhKeyword
           THEN [is_fiqh |-> TRUE, category |-> <<"f","i","q","h">>]
         ELSE IF last.question \in HasQuranKeyword
           THEN [is_fiqh |-> FALSE, category |-> <<"q","u","r","a","n">>]
         ELSE IF last.question \in HasHadithKeyword
           THEN [is_fiqh |-> FALSE, category |-> <<"h","a","d","i","t","h">>]
         ELSE [is_fiqh |-> FALSE, category |-> <<"g","e","n","e","r","a","l">>]
    /\ is_fiqh_question(Upper(last.question)) = last.ret
    /\ is_fiqh_question(Lower(last.question)) = last.ret

\* C22 witness: a question with a Quran and a Hadith keyword and no fiqh
\* keyword was classified as quran, and one with a Quran and a fiqh keyword
\* is classified as fiqh
C22_Witness ==
  /\ Classified
  /\ last.question = QVerseHadith
  /\ last.question \in (HasQuranKeyword \cap HasHadithKeyword) \ HasFiqhKeyword
  /\ last.ret = [is_fiqh |-> FALSE, category |-> <<"q","u","r","a","n">>]
  /\ is_fiqh_question(QVerseFasting).is_fiqh

Stats == last.op = "get_statistics"

\* C23: get_statistics returns an entry for each of the four canonical keys
\* and no other; the entry of a collection whose lookup raised is
\* "unavailable" with 0 points, and no other entry is; otherwise the entry
\* carries the number of points and is "ready" when that is positive and
\* "empty" when it is 0; the entries of the collections whose lookup did not
\* raise are what they are when no lookup raises.
C23_Statistics ==
  Stats =>
    /\ DOMAIN last.ret.collections = MadhabKeySet
    /\ \A k \in MadhabKeySet :
         LET entry == last.ret.collections[k]
             count == Len(PointsOf(store, k))
             failed == Fiqh(k) \in last.failing
         IN  /\ entry.collection_name = Fiqh(k)
             /\ entry.status = "unavailable" <=> failed
             /\ entry.status = "ready" <=> (~failed /\ count > 0)
             /\ entry.status = "empty" <=> (~failed /\ count = 0)
             /\ entry.points = IF failed THEN 0 ELSE count
             /\ ~failed =>
                  entry = FiqhRAG_get_statistics(store, {}).collections[k]

\* C23 witness: the lookup of the maliki collection raised while it held a
\* point; maliki is unavailable, hanafi is ready and the other two are empty
C23_Witness ==
  /\ Stats
  /\ last.failing = {Fiqh(maliki)}
  /\ Len(PointsOf(store, maliki)) >= 1
  /\ last.ret.collections[maliki].status = "unavailable"
  /\ last.ret.collections[hanafi].status = "ready"
  /\ last.ret.collections[shafii].status = "empty"

Constructed == last.op = "__init__"

\* C24 as stated: with the client and the embedding model loaded, a
\* construction is not fatal whatever collection fails to be created: the
\* engine is constructed and the call does not raise
C24_CreationFailureNotFatal ==
  (Constructed /\ ~last.client_raises /\ ~last.model_raises) =>
    (~last.raised /\ rag = FiqhRAGEngine)

\* caller t takes a step of _ensure_collection
EnsureStep(t) ==
  /\ threads[t].pc \in {"get_collection", "create_collection"}
  /\ threads'[t] # threads[t]

Acked(c) ==
  {p \in UNION {threads[t].acked : t \in Threads} :
     collection_for_madhab(p.payload.madhab) = c}

\* the points of a list, as a set
Range(s) == {s[i] : i \in 1..Len(s)}

\* no call in progress
Quiescent == \A t \in Threads : threads[t].pc = "idle"

FiqhCollections == {collection_for_madhab(k) : k \in MadhabKeySet}

\* with every call finished, each collection holds each point of the
\* add_document calls that returned True once, and nothing else
ExactlyAcked ==
  Quiescent =>
    \A c \in FiqhCollections :
      /\ Range(CollectionItems(store, c)) = Acked(c)
      /\ Len(CollectionItems(store, c)) = Cardinality(Acked(c))

\* a step of add_document by caller t leaves every other collection as it is
AddIsolated(t) ==
  (t \in Adding /\ threads'[t] # threads[t]) =>
    \A c \in FiqhCollections :
      c # threads[t].collection_name =>
        CollectionItems(store', c) = CollectionItems(store, c)

\* when the search of caller t is through with a collection, what it saw
\* of it is the collection as it is at that moment, whole points only, or
\* nothing when the collection did not exist when the search came to it
SearchSeesState(t) ==
  /\ (threads[t].pc = "get" /\ threads'[t].pc = "scan") =>
       (threads'[t].attached <=>
          collection_for_madhab(Head(threads[t].remaining)) \in DOMAIN store)
  /\ (threads[t].pc = "scan" /\ threads'[t].pc # "scan") =>
       LET c == collection_for_madhab(Head(threads[t].remaining))
       IN  /\ store' = store
           /\ threads'[t].view[c] =
                IF threads[t].attached THEN CollectionItems(store, c) ELSE <<>>
           /\ \A d \in DOMAIN threads[t].view \ {c} :
                threads'[t].view[d] = threads[t].view[d]

\* C26: under every interleaving of the callers, add_document touches its
\* own collection only, a search takes each collection in a state it had
\* while the search ran (before or after a concurrent add, never a part of
\* one), and when all calls have finished each collection holds exactly the
\* points of the add_document calls that returned True
C26_Interleavings ==
  /\ []ExactlyAcked
  /\ [][\A t \in Threads : AddIsolated(t) /\ SearchSeesState(t)]_vars

\* C26 witness: a search of hanafi then maliki has finished; it saw the
\* maliki point, and saw hanafi empty although the other caller's
\* add_document stored a hanafi point and returned True while it ran
C26_Witness ==
  \E s \in Threads, t \in Threads :
    /\ s # t
    /\ threads[s].pc = "done" /\ threads[s].op = "search"
    /\ threads[s].madhabs.items = <<hanafi, RawMaliki>>
    /\ threads[s].view[collection_for_madhab(hanafi)] = <<>>
    /\ Len(threads[s].view[collection_for_madhab(maliki)]) = 1
    /\ Len(threads[s].ret) = 1
    /\ threads[t].pc = "done" /\ threads[t].op = "add_document" /\ threads[t].ret
    /\ Len(CollectionItems(store, collection_for_madhab(hanafi))) = 1

\* C27 as stated: once set(key, value) has returned True a get of the key
\* returns the value, and once delete(key) has returned True a get of the
\* key returns None, whether or not the Redis call of that get fails
C27_Register ==
  /\ (last.op = "set" /\ last.ret) =>
       \A redis_raises \in BOOLEAN :
         CacheService_get(cache, redis, last.key, redis_raises) = last.value
  /\ (last.op = "delete" /\ last.ret) =>
       \A redis_raises \in BOOLEAN :
         CacheService_get(cache, redis, last.key, redis_raises) = None

\* C28 as stated: with the generator client at hand, the call returns a
\* pair whose first component is a boolean, whatever the generator gives
C28_BooleanDecision ==
  (Decided /\ ~last.construct_raises) =>
    (~last.raised /\ last.ret.multi \in BOOLEAN)

\* C29 as stated: no two results of one search share an id
C29_NoDuplicateResults ==
  Searched =>
    \A i \in 1..Len(last.ret) : \A j \in 1..Len(last.ret) :
      i # j => last.ret[i].id # last.ret[j].id

\* C30 as stated: the point an add_document that returned True has stored
\* carries, as its payload text, the text argument, and as its vector the
\* embedding of that text
C30_PayloadTextEmbedded ==
  [][(last.op = "idle" /\ last'.op = "add_document" /\ last'.ret) =>
       \A c \in DOMAIN store' :
         \A i \in 1..Len(store'[c]) :
           store'[c][i].id \notin UsedIds(store) =>
             /\ store'[c][i].vector = encode(last'.text)
             /\ PayloadGet(store'[c][i].payload, "text") = last'.text]_vars

====
